---- MODULE Spec2Model ----
(***************************************************************************)
(* MiniPy2: the scanner (src/parser/lexer.ts), the token model             *)
(* (src/parser/token.ts), the grammar classifiers (src/parser/grammar.ts)  *)
(* and the TDOP parser (src/parser/parser.ts).                             *)
(*                                                                         *)
(* A character is a one-character string; a text (the input, a token's     *)
(* literal) is a sequence of characters.  Offsets are 0-based as in the    *)
(* source, so input[i] of the source is input[i + 1] here.                 *)
(***************************************************************************)
EXTENDS Integers, Sequences, FiniteSets, TLC

VARIABLES input, lexer, out, thrown, phase, currToken, result

vars == <<input, lexer, out, thrown, phase, currToken, result>>

(***************************************************************************)
(* Bounds of the model.                                                    *)
(***************************************************************************)
\* longest input of the scanner specification
MaxLen == 4
\* number of nextToken calls made on one scanner
MaxCalls == 10
\* longest input of the parser specification
MaxParseLen == 4
\* longest expression of the expression specification
MaxExprLen == 7
\* longest input of the array literal specification
MaxArrLen == 6
\* longest input of the indentation specification
MaxIndentLen == 8
\* longest text after the opening parenthesis in the group specification
MaxGroupLen == 5
\* longest input of the operand specification
MaxPrefixLen == 4
\* longest input of the block specification
MaxBlockLen == 5
\* most lines of a program of the statement specification
MaxLines == 3
\* longest input of the location specification
MaxLineColLen == 5
\* most words of an input of the word specification
MaxWords == 2
\* longest input of the punctuation specification
MaxPunctLen == 2
\* longest input of the number specification
MaxNumLen == 4
\* longest input of the trimming specification
MaxTrimLen == 4
\* most applications of removeTrailingWhitespace in a row
MaxTrims == 2
\* most lines of an indented input of the step specification
MaxIndentLines == 4
\* longest input of the fair step specification
MaxFairLen == 3
\* longest input of the method specification
MaxAcceptLen == 3

(***************************************************************************)
(* Characters.                                                             *)
(***************************************************************************)
\* grammar.EOF, the NUL character '\0'
EOF == "\\0"
LF == "\n"
TAB == "\t"
CR == "\r"
\* the form feed, a control character that is no tab, carriage return or
\* line break
FF == "\f"
QUOTE == "\""
\* the grave accent, which a TLA+ string cannot hold
BACKTICK == "grave"

\* the printable ASCII characters in code order, from the space (code 32)
Printable ==
  <<
    " ", "!", QUOTE, "#", "$", "%", "&", "'", "(", ")", "*", "+",
    ",", "-", ".", "/", "0", "1", "2", "3", "4", "5", "6", "7",
    "8", "9", ":", ";", "<", "=", ">", "?", "@", "A", "B", "C",
    "D", "E", "F", "G", "H", "I", "J", "K", "L", "M", "N", "O",
    "P", "Q", "R", "S", "T", "U", "V", "W", "X", "Y", "Z", "[",
    "\\", "]", "^", "_", BACKTICK, "a", "b", "c", "d", "e", "f", "g",
    "h", "i", "j", "k", "l", "m", "n", "o", "p", "q", "r", "s",
    "t", "u", "v", "w", "x", "y", "z", "{", "|", "}", "~"
  >>

\* the UTF-16 code unit of a character, which JavaScript's <= on one-character
\* strings compares
CharCodeTable ==
  [c \in {EOF, TAB, LF, FF, CR} \cup {Printable[i] : i \in 1..Len(Printable)} |->
     CASE c = EOF -> 0
       [] c = TAB -> 9
       [] c = FF -> 12
       [] c = LF -> 10
       [] c = CR -> 13
       [] OTHER -> 31 + (CHOOSE i \in 1..Len(Printable) : Printable[i] = c)]

CharCode(c) == CharCodeTable[c]

\* all texts over the alphabet A of length at most n
Texts(A, n) == UNION {[1..k -> A] : k \in 0..n}

(***************************************************************************)
(* grammar.ts                                                              *)
(***************************************************************************)
isEOF(c) == c = EOF

isLineBreak(c) == c = LF

isInlineWhitespace(c) ==
  (CharCode(c) <= CharCode(" ")) /\ (isLineBreak(c) = FALSE) /\ (isEOF(c) = FALSE)

isComment(c) == c = "#"

isOperatorStart(c) ==
  c \in {"-", ",", ";", ":", "!", "(", ")", "[", "]", "*", "/", "+", "="}

isDoubleQuote(c) == c = QUOTE

isDigit(c) == (CharCode("0") <= CharCode(c)) /\ (CharCode(c) <= CharCode("9"))

isLetter(c) ==
  \/ (CharCode("a") <= CharCode(c)) /\ (CharCode(c) <= CharCode("z"))
  \/ (CharCode("A") <= CharCode(c)) /\ (CharCode(c) <= CharCode("Z"))

isAlphaNumeric(c) == (c = "_") \/ isLetter(c) \/ isDigit(c)

(***************************************************************************)
(* token.ts                                                                *)
(***************************************************************************)
\* the members of enum TokenType, by name
TokenType ==
  {"Error", "EOF", "Indent", "Dedent",
   "Ident", "And", "Not", "Or", "If", "Elif", "Else", "While",
   "Bool", "Num", "Str",
   "Asterisk", "Colon", "SemiColon", "Bang", "Comma", "Dash", "LeftBracket",
   "LeftParen", "Plus", "RightBracket", "RightParen", "Slash", "Assign"}

\* the value of the expression TokenType.<name>: the member, or undefined
\* when the enum has no member of that name
TokenTypeMember(name) == IF name \in TokenType THEN name ELSE "undefined"

tokenTypeToSymbol(typ) ==
  CASE typ = "Asterisk" -> "*"
    [] typ = "Colon" -> ":"
    [] typ = "SemiColon" -> ";"
    [] typ = "Bang" -> "!"
    [] typ = "Comma" -> ","
    [] typ = "Dash" -> "-"
    [] typ = "LeftBracket" -> "["
    [] typ = "LeftParen" -> "("
    [] typ = "Plus" -> "+"
    [] typ = "RightBracket" -> "]"
    [] typ = "RightParen" -> ")"
    [] typ = "Slash" -> "/"
    [] typ = "Assign" -> "="
    [] OTHER -> IF typ \in TokenType THEN typ ELSE "undefined"

Token(type, literal, loc) == [type |-> type, literal |-> literal, loc |-> loc]

toSymbol(tok) == tokenTypeToSymbol(tok.type)

\* grammar.keywords: the four spellings, each bound to TokenType.Keyword<X>
keywords ==
  [w \in {<<"i", "f">>, <<"e", "l", "i", "f">>, <<"e", "l", "s", "e">>,
          <<"w", "h", "i", "l", "e">>} |->
     CASE w = <<"i", "f">> -> TokenTypeMember("KeywordIf")
       [] w = <<"e", "l", "i", "f">> -> TokenTypeMember("KeywordElif")
       [] w = <<"e", "l", "s", "e">> -> TokenTypeMember("KeywordElse")
       [] OTHER -> TokenTypeMember("KeywordWhile")]

\* the names of identifier characters every object literal inherits from
\* Object.prototype: looked up in keywords they give a value that is not
\* undefined
ObjectPrototype ==
  {<<"c", "o", "n", "s", "t", "r", "u", "c", "t", "o", "r">>,
   <<"t", "o", "S", "t", "r", "i", "n", "g">>,
   <<"v", "a", "l", "u", "e", "O", "f">>,
   <<"h", "a", "s", "O", "w", "n", "P", "r", "o", "p", "e", "r", "t", "y">>,
   <<"i", "s", "P", "r", "o", "t", "o", "t", "y", "p", "e", "O", "f">>,
   <<"t", "o", "L", "o", "c", "a", "l", "e", "S", "t", "r", "i", "n", "g">>,
   <<"_", "_", "p", "r", "o", "t", "o", "_", "_">>}

\* keywords[word]: the value bound to the spelling, an inherited property
\* (which is no member of TokenType), or undefined
keywordsLookup(word) ==
  IF word \in DOMAIN keywords THEN keywords[word]
  ELSE IF word \in ObjectPrototype THEN "inherited"
  ELSE "undefined"

isKeyword(word) == keywordsLookup(word) # "undefined"

(***************************************************************************)
(* preprocess.ts                                                           *)
(***************************************************************************)
\* the for loop of removeTrailingWhitespace with a line break after skipped
\* characters skipped as well
RECURSIVE removeLoopLineBreaks(_, _, _, _)
removeLoopLineBreaks(in, i, trailing, o) ==
  IF i < 0 THEN o
  ELSE IF trailing /\ (isInlineWhitespace(in[i + 1]) \/ (o # <<>> /\ isLineBreak(in[i + 1])))
    THEN removeLoopLineBreaks(in, i - 1, trailing, o)
  ELSE removeLoopLineBreaks(in, i - 1, in[i + 1] = LF, <<in[i + 1]>> \o o)

\* the for loop of removeTrailingWhitespace, from the index i down to 0
RECURSIVE removeLoop(_, _, _, _)
removeLoop(in, i, trailing, o) ==
  IF i < 0 THEN o
  ELSE IF trailing /\ isInlineWhitespace(in[i + 1])
    THEN removeLoop(in, i - 1, trailing, o)
  ELSE removeLoop(in, i - 1, in[i + 1] = LF, <<in[i + 1]>> \o o)

removeTrailingWhitespace(in) == removeLoop(in, Len(in) - 1, TRUE, <<>>)

(***************************************************************************)
(* lexer.ts: class Lexer                                                   *)
(***************************************************************************)
\* String.prototype.slice(a, b)
Slice(s, a, b) ==
  LET n == Len(s)
      lo == IF a < 0 THEN (IF n + a < 0 THEN 0 ELSE n + a) ELSE (IF a > n THEN n ELSE a)
      hi == IF b < 0 THEN (IF n + b < 0 THEN 0 ELSE n + b) ELSE (IF b > n THEN n ELSE b)
  IN SubSeq(s, lo + 1, hi)

\* constructor
Lexer(in) ==
  [input |-> in, start |-> 0, pos |-> 0, state |-> "lexAny", buffer |-> <<>>,
   indentStack |-> <<0>>]

currentSlice(l) == Slice(l.input, l.start, l.pos)

peekChar(l) == IF l.pos < Len(l.input) THEN l.input[l.pos + 1] ELSE EOF

\* nextChar moving pos on at the end of the input as well
nextCharPastEnd(l) ==
  IF l.pos < Len(l.input)
    THEN [c |-> l.input[l.pos + 1], l |-> [l EXCEPT !.pos = @ + 1]]
    ELSE [c |-> EOF, l |-> [l EXCEPT !.pos = @ + 1]]

\* nextChar: the character read, and the lexer after the read
nextChar(l) ==
  IF l.pos < Len(l.input)
    THEN [c |-> l.input[l.pos + 1], l |-> [l EXCEPT !.pos = @ + 1]]
    ELSE [c |-> EOF, l |-> l]

\* ignore leaving start where it is
ignoreKeepStart(l) == l

ignore(l) == [l EXCEPT !.start = l.pos]

backupChar(l) == [l EXCEPT !.pos = @ - 1]

\* v bound to a name in K: a local variable of the source
Let(v, K(_)) == K(v)

\* accept: valid is the set of the characters of the string valid
accept(l, valid) ==
  Let(nextChar(l), LAMBDA r :
    IF r.c \in valid THEN [ok |-> TRUE, l |-> r.l]
    ELSE IF r.c # EOF THEN [ok |-> FALSE, l |-> backupChar(r.l)]
    ELSE [ok |-> FALSE, l |-> r.l])

\* the while loop of acceptRun, c being the character read last
RECURSIVE acceptRunLoop(_, _, _)
acceptRunLoop(l, c, valid) ==
  IF c \in valid
    THEN Let(nextChar(l), LAMBDA r :
           IF r.c = EOF THEN r.l ELSE acceptRunLoop(r.l, r.c, valid))
    ELSE backupChar(l)

acceptRun(l, valid) ==
  Let(nextChar(l), LAMBDA r : acceptRunLoop(r.l, r.c, valid))

\* emit with the offset of the token taken from pos
emitAtPos(l, t) ==
  [l EXCEPT !.buffer = Append(@, Token(t, currentSlice(l), l.pos)),
            !.start = l.pos]

emit(l, t) ==
  [l EXCEPT !.buffer = Append(@, Token(t, currentSlice(l), l.start)),
            !.start = l.pos]

\* emitError pushing no token
emitErrorNoToken(l, msg) == backupChar(l)

\* emitError with the offset of the token taken from pos
emitErrorAtPos(l, msg) ==
  backupChar([l EXCEPT !.buffer = Append(@, Token("Error", msg, l.pos))])

\* emitError: the caller hands the returned null on as the next state
emitError(l, msg) ==
  backupChar([l EXCEPT !.buffer = Append(@, Token("Error", msg, l.start))])

RECURSIVE clearIndentTo(_, _)
clearIndentTo(l, indentDepth) ==
  IF indentDepth < l.indentStack[Len(l.indentStack)]
    THEN clearIndentTo(
           [emit(l, "Dedent") EXCEPT
              !.indentStack = SubSeq(@, 1, Len(@) - 1)],
           indentDepth)
    ELSE l

\* the for loop of getLineCol with the column not set back to 1 at a line
\* break
RECURSIVE getLineColLoopNoReset(_, _, _, _, _)
getLineColLoopNoReset(in, loc, i, line, col) ==
  IF i < Len(in)
    THEN IF i = loc THEN <<line, col>>
         ELSE IF isLineBreak(in[i + 1])
           THEN getLineColLoopNoReset(in, loc, i + 1, line + 1, col + 1)
           ELSE getLineColLoopNoReset(in, loc, i + 1, line, col + 1)
    ELSE <<line, col>>

\* the for loop of getLineCol
RECURSIVE getLineColLoop(_, _, _, _, _)
getLineColLoop(in, loc, i, line, col) ==
  IF i < Len(in)
    THEN IF i = loc THEN <<line, col>>
         ELSE IF isLineBreak(in[i + 1])
           THEN getLineColLoop(in, loc, i + 1, line + 1, 1)
           ELSE getLineColLoop(in, loc, i + 1, line, col + 1)
    ELSE <<line, col>>

getLineCol(l, loc) == getLineColLoop(l.input, loc, 0, 1, 1)

(***************************************************************************)
(* lexer.ts: the state functions.  Each yields the lexer after it ran,     *)
(* the state function it returns (next) and the exception it raised.       *)
(***************************************************************************)
NoExc == [kind |-> "none"]

Ret(l, next) == [l |-> l, next |-> next, exc |-> NoExc]

Throw(l, exc) == [l |-> l, next |-> l.state, exc |-> exc]

RECURSIVE lexAny(_)
lexAny(l) ==
  Let(nextChar(l), LAMBDA n :
    CASE isEOF(n.c) -> Ret(n.l, "lexEOF")
      [] isLineBreak(n.c) -> Ret(n.l, "lexLineBreak")
      [] isInlineWhitespace(n.c) -> lexAny(ignore(n.l))
      [] isComment(n.c) -> Ret(n.l, "lexComment")
      [] isOperatorStart(n.c) -> Ret(backupChar(n.l), "lexOperator")
      [] isDoubleQuote(n.c) -> Ret(n.l, "lexString")
      [] isDigit(n.c) -> Ret(backupChar(n.l), "lexNumber")
      [] isAlphaNumeric(n.c) -> Ret(backupChar(n.l), "lexIdentifier")
      [] OTHER -> Ret(emitError(n.l, <<"unexpected symbol: '", n.c, "'">>), "null"))

\* lexEOF returning no next state
lexEOFOnce(l) == Ret(emit(clearIndentTo(l, 0), "EOF"), "null")

\* lexEOF without the unwinding of the indentation stack
lexEOFNoDedent(l) == Ret(emit(l, "EOF"), "lexEOF")

lexEOF(l) == Ret(emit(clearIndentTo(l, 0), "EOF"), "lexEOF")

getIndentDepth(l) ==
  Let(acceptRun(l, {" "}), LAMBDA a :
    [depth |-> Len(currentSlice(a)), l |-> ignore(a)])

\* the first stage of lexLineBreak: the line break and those that follow it
RECURSIVE skipLineBreaks(_)
skipLineBreaks(l) ==
  IF isLineBreak(peekChar(l)) THEN skipLineBreaks(ignore(nextChar(l).l)) ELSE l

\* the third stage of lexLineBreak popping one level whatever the depth
compareIndentPopOnce(l, indentDepth, prevIndentDepth) ==
  IF indentDepth > prevIndentDepth
    THEN Ret(emit([l EXCEPT !.indentStack = Append(@, indentDepth)], "Indent"), "lexAny")
  ELSE IF indentDepth < prevIndentDepth
    THEN Ret([emit(l, "Dedent") EXCEPT !.indentStack = SubSeq(@, 1, Len(@) - 1)], "lexAny")
  ELSE Ret(l, "lexAny")

\* the third stage of lexLineBreak pushing a depth equal to the top as well
compareIndentPushEqual(l, indentDepth, prevIndentDepth) ==
  IF indentDepth >= prevIndentDepth
    THEN Ret(emit([l EXCEPT !.indentStack = Append(@, indentDepth)], "Indent"), "lexAny")
  ELSE Ret(clearIndentTo(l, indentDepth), "lexAny")

\* the third stage of lexLineBreak
compareIndent(l, indentDepth, prevIndentDepth) ==
  IF indentDepth > prevIndentDepth
    THEN Ret(emit([l EXCEPT !.indentStack = Append(@, indentDepth)], "Indent"), "lexAny")
  ELSE IF indentDepth < prevIndentDepth
    THEN Ret(clearIndentTo(l, indentDepth), "lexAny")
  ELSE Ret(l, "lexAny")

lexLineBreak(l) ==
  Let(skipLineBreaks(ignore(l)), LAMBDA l1 :
    IF isEOF(peekChar(l1)) THEN Ret(l1, "lexEOF")
    ELSE Let(getIndentDepth(l1), LAMBDA d :
           IF d.depth > 0 /\ isLineBreak(peekChar(d.l))
             THEN Throw(d.l, [kind |-> "Error", msg |-> "no trailing whitespace"])
             ELSE compareIndent(d.l, d.depth, d.l.indentStack[Len(d.l.indentStack)])))

RECURSIVE lexComment(_)
lexComment(l) ==
  Let(nextChar(l), LAMBDA n :
    IF isEOF(n.c) \/ isLineBreak(n.c) THEN Ret(ignore(n.l), "lexAny")
    ELSE lexComment(n.l))

\* the switch of lexOperator: the token type of the case, "default" for none
operatorType(r) ==
  CASE r = "-" -> TokenTypeMember("Dash")
    [] r = "," -> TokenTypeMember("Comma")
    [] r = ":" -> TokenTypeMember("Colon")
    [] r = ";" -> TokenTypeMember("SemiColon")
    [] r = "!" -> TokenTypeMember("Bang")
    [] r = "(" -> TokenTypeMember("LeftParen")
    [] r = ")" -> TokenTypeMember("RightParen")
    [] r = "[" -> TokenTypeMember("LeftBracket")
    [] r = "]" -> TokenTypeMember("RightBracket")
    [] r = "*" -> TokenTypeMember("Asterisk")
    [] r = "/" -> TokenTypeMember("Slash")
    [] r = "+" -> TokenTypeMember("Plus")
    [] r = "<" -> TokenTypeMember("LessThan")
    [] r = "=" -> TokenTypeMember("Assign")
    [] r = ">" -> TokenTypeMember("GreaterThan")
    [] OTHER -> "default"

lexOperator(l) ==
  Let(nextChar(l), LAMBDA n :
    IF operatorType(n.c) = "default"
      THEN Ret(emitError(n.l, <<"unexpected symbol: '", n.c, "'">>), "null")
      ELSE Ret(emit(n.l, operatorType(n.c)), "lexAny"))

\* lexString reading on over a line break
RECURSIVE lexStringAcrossLines(_)
lexStringAcrossLines(l) ==
  Let(nextChar(l), LAMBDA n :
    IF isEOF(n.c)
      THEN Ret(emitError(n.l, <<"unterminated string">>), "null")
    ELSE IF isDoubleQuote(n.c) THEN Ret(emit(n.l, "Str"), "lexAny")
    ELSE lexStringAcrossLines(n.l))

RECURSIVE lexString(_)
lexString(l) ==
  Let(nextChar(l), LAMBDA n :
    IF isEOF(n.c) \/ isLineBreak(n.c)
      THEN Ret(emitError(n.l, <<"unterminated string">>), "null")
    ELSE IF isDoubleQuote(n.c) THEN Ret(emit(n.l, "Str"), "lexAny")
    ELSE lexString(n.l))

Digits == {"0", "1", "2", "3", "4", "5", "6", "7", "8", "9"}

lexNumber(l) ==
  Let(acceptRun(l, Digits), LAMBDA l1 :
  Let(IF peekChar(l1) = "." THEN acceptRun(nextChar(l1).l, Digits) ELSE l1, LAMBDA l2 :
  Let(accept(l2, {"e", "E"}), LAMBDA e :
  Let(IF e.ok THEN acceptRun(accept(e.l, {"+", "-"}).l, Digits) ELSE e.l, LAMBDA l3 :
    IF isAlphaNumeric(peekChar(l3))
      THEN Let(nextChar(l3).l, LAMBDA l4 :
             Ret(emitError(l4, <<"bad number syntax: '">> \o currentSlice(l4) \o <<"'">>),
                 "null"))
      ELSE Ret(emit(l3, "Num"), "lexAny")))))

\* the classification of the word lexIdentifier has read
emitWord(l, word) ==
  CASE isKeyword(word) -> Ret(emit(l, keywordsLookup(word)), "lexAny")
    [] word = <<"T", "r", "u", "e">> \/ word = <<"F", "a", "l", "s", "e">> ->
         Ret(emit(l, "Bool"), "lexAny")
    [] OTHER -> Ret(emit(l, "Ident"), "lexAny")

RECURSIVE lexIdentifier(_)
lexIdentifier(l) ==
  Let(nextChar(l), LAMBDA n :
    IF isAlphaNumeric(n.c) THEN lexIdentifier(n.l)
    ELSE Let(IF isEOF(n.c) = FALSE THEN backupChar(n.l) ELSE n.l, LAMBDA l1 :
           emitWord(l1, currentSlice(l1))))

\* this.state(this)
RunState(l) ==
  CASE l.state = "lexAny" -> lexAny(l)
    [] l.state = "lexEOF" -> lexEOF(l)
    [] l.state = "lexLineBreak" -> lexLineBreak(l)
    [] l.state = "lexComment" -> lexComment(l)
    [] l.state = "lexOperator" -> lexOperator(l)
    [] l.state = "lexString" -> lexString(l)
    [] l.state = "lexNumber" -> lexNumber(l)
    [] l.state = "lexIdentifier" -> lexIdentifier(l)

\* the buffer after nextToken has taken its first token, the error token not
\* put back
DeliveredOnce(buffer) == Tail(buffer)

\* the buffer after nextToken has taken its first token: an Error token is
\* put back at the front, every other token is removed
Delivered(buffer) ==
  IF Head(buffer).type = "Error" THEN <<Head(buffer)>> \o Tail(buffer) ELSE Tail(buffer)

\* a call that never returns: the while (true) of nextToken with a null state
\* and an empty buffer
Hang == [kind |-> "hang"]

NoToken == Token("none", <<>>, 0)

\* nextToken: the lexer after the call, the token returned, the exception
RECURSIVE nextToken(_)
nextToken(l) ==
  Let(IF l.state # "null" THEN RunState(l) ELSE Ret(l, "null"), LAMBDA r :
    IF r.exc.kind # "none" THEN [l |-> r.l, tok |-> NoToken, exc |-> r.exc]
    ELSE IF Len(r.l.buffer) >= 1
      THEN [l |-> [r.l EXCEPT !.state = r.next, !.buffer = Delivered(@)],
            tok |-> Head(r.l.buffer), exc |-> NoExc]
    ELSE IF r.next = "null"
      THEN [l |-> [r.l EXCEPT !.state = r.next], tok |-> NoToken, exc |-> Hang]
    ELSE nextToken([r.l EXCEPT !.state = r.next]))

(***************************************************************************)
(* error.ts and ast.ts                                                     *)
(***************************************************************************)
SyntaxError(in, msg, line, col) ==
  [kind |-> "SyntaxError", input |-> in, msg |-> msg, line |-> line, col |-> col]

\* the TypeError the runtime raises when a value that is undefined is called
\* or constructed
TypeError(msg) == [kind |-> "TypeError", msg |-> msg]

\* the classes ast.ts exports
AstExports ==
  {"Block", "Program", "IfStmt", "ElifClause", "ExprStmt", "Ident", "BoolLit",
   "NumLit", "StrLit", "ArrLit", "BinaryExpr", "UnaryExpr"}

Null == [node |-> "null"]

Block(stmts) == [node |-> "Block", stmts |-> stmts]
Program(stmts) == [node |-> "Program", stmts |-> stmts]
IfStmt(ifCond, ifClause, elifClauses, elseClause) ==
  [node |-> "IfStmt", ifCond |-> ifCond, ifClause |-> ifClause,
   elifClauses |-> elifClauses, elseClause |-> elseClause]
ElifClause(elifCond, elifClause) ==
  [node |-> "ElifClause", elifCond |-> elifCond, elifClause |-> elifClause]
WhileStmt(cond, clause) == [node |-> "WhileStmt", cond |-> cond, clause |-> clause]
ExprStmt(expr) == [node |-> "ExprStmt", expr |-> expr]
Ident(tok) == [node |-> "Ident", token |-> tok]
BoolLit(tok) == [node |-> "BoolLit", token |-> tok]
NumLit(tok) == [node |-> "NumLit", token |-> tok]
StrLit(tok) == [node |-> "StrLit", token |-> tok]
ArrLit(leftBracket, elems, rightBracket) ==
  [node |-> "ArrLit", leftBracket |-> leftBracket, elems |-> elems,
   rightBracket |-> rightBracket]
BinaryExpr(tok, a, b) == [node |-> "BinaryExpr", token |-> tok, a |-> a, b |-> b]
UnaryExpr(tok, a) == [node |-> "UnaryExpr", token |-> tok, a |-> a]

\* toString of the expression nodes
RECURSIVE exprToString(_)
RECURSIVE elemsToString(_)
elemsToString(elems) ==
  IF elems = <<>> THEN <<>>
  ELSE <<" ">> \o exprToString(Head(elems)) \o elemsToString(Tail(elems))

exprToString(e) ==
  CASE e.node = "BinaryExpr" ->
         <<"(">> \o e.token.literal \o <<" ">> \o exprToString(e.a) \o <<" ">>
           \o exprToString(e.b) \o <<")">>
    [] e.node = "UnaryExpr" ->
         <<"(">> \o e.token.literal \o <<" ">> \o exprToString(e.a) \o <<")">>
    [] e.node = "ArrLit" -> <<"[">> \o elemsToString(e.elems) \o <<" ", "]">>
    [] OTHER -> e.token.literal

(***************************************************************************)
(* parser.ts.  A parsing function yields the parser after it ran (p), the  *)
(* value it returns (v) and the exception it raised (exc).                 *)
(***************************************************************************)
Lowest == 0
Assignment == 1
Equals == 2
Relative == 3
Sum == 4
Product == 5
Prefix == 6
Attribute == 7

precTable ==
  [sym \in {"=", "==", "!=", "<", ">", "<=", ">=", "+", "-", "*", "/", "(", "[", "."} |->
     CASE sym = "=" -> Assignment
       [] sym \in {"==", "!="} -> Equals
       [] sym \in {"<", ">", "<=", ">="} -> Relative
       [] sym \in {"+", "-"} -> Sum
       [] sym \in {"*", "/"} -> Product
       [] OTHER -> Attribute]

prefixParselets ==
  [sym \in {"Ident", "Bool", "Num", "Str", "[", "(", "-", "!"} |->
     CASE sym = "Ident" -> "parseIdent"
       [] sym = "Bool" -> "parseBoolLit"
       [] sym = "Num" -> "parseNumLit"
       [] sym = "Str" -> "parseStrLit"
       [] sym = "[" -> "parseArrLit"
       [] sym = "(" -> "parseExprGroup"
       [] OTHER -> "parseUnaryPrefixExpr"]

infixParselets ==
  [sym \in {"+", "-", "*", "/", "==", "!=", "<", ">", "<=", ">=", "="} |->
     "parseBinaryInfixExpr"]

Nil == [node |-> "undefined"]

Ok(p, v) == [p |-> p, v |-> v, exc |-> NoExc]
Raise(p, e) == [p |-> p, v |-> Nil, exc |-> e]
Failed(r) == r.exc.kind # "none"

\* r, and K of it when r raised nothing: the statements after a call that
\* may throw
Then(r, K(_)) == IF Failed(r) THEN r ELSE K(r)

\* toks records the tokens the scanner has returned to this parser
advanceTokenStream(p) ==
  Let(nextToken(p.lexer), LAMBDA r :
    IF r.exc.kind # "none" THEN Raise([p EXCEPT !.lexer = r.l], r.exc)
    ELSE Ok([p EXCEPT !.lexer = r.l, !.currToken = r.tok, !.toks = Append(@, r.tok)],
            r.tok))

\* constructor
Parser(in) ==
  advanceTokenStream([input |-> in, lexer |-> Lexer(in), currToken |-> NoToken,
                      toks |-> <<>>])

currTokenIs(p, typ) == p.currToken.type = typ

fatalError(p, tok, msg) ==
  Let(getLineCol(p.lexer, tok.loc), LAMBDA pos :
    Raise(p, SyntaxError(p.input, msg, pos[1], pos[2])))

useToken(p, typ) ==
  IF currTokenIs(p, typ)
    THEN Then(advanceTokenStream(p), LAMBDA r : Ok(r.p, p.currToken))
    ELSE fatalError(p, p.currToken,
                    <<"expected '", tokenTypeToSymbol(typ), "', got '",
                      toSymbol(p.currToken), "'">>)

useAnyToken(p) ==
  Then(advanceTokenStream(p), LAMBDA r : Ok(r.p, p.currToken))

\* isStmtTerminator taking the error token for a terminator as well
isStmtTerminatorOrError(p) ==
  currTokenIs(p, "SemiColon") \/ currTokenIs(p, "EOF") \/ currTokenIs(p, "Error")

isStmtTerminator(p) == currTokenIs(p, "SemiColon") \/ currTokenIs(p, "EOF")

\* throwPrefixParsingError with the token consumed before the error is
\* raised
throwPrefixParsingErrorConsuming(p, tok) ==
  Then(useAnyToken(p), LAMBDA r :
    fatalError(r.p, tok, <<"unexpected '", toSymbol(tok), "'">>))

throwPrefixParsingError(p, tok) ==
  fatalError(p, tok, <<"unexpected '", toSymbol(tok), "'">>)

throwInfixParsingError(p, tok) ==
  fatalError(p, tok, <<"unexpected '", toSymbol(tok), "'">>)

throwMissingTerminator(p) ==
  fatalError(p, p.currToken, <<"unexpected '", toSymbol(p.currToken), "'">>)

expectStmtTerminator(p) ==
  IF isStmtTerminator(p) THEN Ok(p, Nil) ELSE throwMissingTerminator(p)

expectExprTerminator(p) ==
  IF \/ isStmtTerminator(p)
     \/ currTokenIs(p, "RightBracket")
     \/ currTokenIs(p, "RightParen")
     \/ currTokenIs(p, "Comma")
    THEN Ok(p, Nil)
    ELSE throwInfixParsingError(p, p.currToken)

lookupPrefixParselet(tok) ==
  IF toSymbol(tok) \in DOMAIN prefixParselets THEN prefixParselets[toSymbol(tok)]
  ELSE "undefined"

lookupInfixParselet(tok) ==
  IF toSymbol(tok) \in DOMAIN infixParselets THEN infixParselets[toSymbol(tok)]
  ELSE "undefined"

noPrefixParseletExists(tok) == lookupPrefixParselet(tok) = "undefined"

currPrecedence(p) ==
  IF toSymbol(p.currToken) \in DOMAIN precTable THEN precTable[toSymbol(p.currToken)]
  ELSE Lowest

parseIdent(p) == Then(useToken(p, "Ident"), LAMBDA r : Ok(r.p, Ident(r.v)))

parseBoolLit(p) == Then(useToken(p, "Bool"), LAMBDA r : Ok(r.p, BoolLit(r.v)))

parseNumLit(p) == Then(useToken(p, "Num"), LAMBDA r : Ok(r.p, NumLit(r.v)))

parseStrLit(p) == Then(useToken(p, "Str"), LAMBDA r : Ok(r.p, StrLit(r.v)))

RECURSIVE parseExpr(_, _)
RECURSIVE parseExprLoop(_, _, _)
RECURSIVE parseArrLit(_)
RECURSIVE parseArrLitLoop(_, _)
RECURSIVE parseExprGroup(_)
RECURSIVE parseBinaryInfixExpr(_, _)
RECURSIVE parseUnaryPrefixExpr(_)
RECURSIVE parseArrLitLoopNoTrailingComma(_, _)

\* parseBinaryInfixExpr with the right operand parsed one level below the
\* operator's, which groups operators of equal level to the right
parseBinaryInfixExprRightAssoc(p, left) ==
  Then(useAnyToken(p), LAMBDA oper :
  Then(parseExpr(oper.p, currPrecedence(p) - 1), LAMBDA right :
    Ok(right.p, BinaryExpr(oper.v, left, right.v))))

\* precedence is read before the operator is consumed; the right operand is
\* parsed at the operator's own level
parseBinaryInfixExpr(p, left) ==
  Then(useAnyToken(p), LAMBDA oper :
  Then(parseExpr(oper.p, currPrecedence(p)), LAMBDA right :
    Ok(right.p, BinaryExpr(oper.v, left, right.v))))

\* parseUnaryPrefixExpr with the operand parsed at the Lowest level
parseUnaryPrefixExprLowest(p) ==
  Then(useAnyToken(p), LAMBDA oper :
  Then(parseExpr(oper.p, Lowest), LAMBDA right :
    Ok(right.p, UnaryExpr(oper.v, right.v))))

parseUnaryPrefixExpr(p) ==
  Then(useAnyToken(p), LAMBDA oper :
  Then(parseExpr(oper.p, Prefix), LAMBDA right :
    Ok(right.p, UnaryExpr(oper.v, right.v))))

\* parseExprGroup taking whatever token follows the inner expression for the
\* closing parenthesis
parseExprGroupAnyClose(p) ==
  Then(useToken(p, "LeftParen"), LAMBDA lp :
  Then(parseExpr(lp.p, Lowest), LAMBDA expr :
  Then(useAnyToken(expr.p), LAMBDA rp :
    Ok(rp.p, expr.v))))

parseExprGroup(p) ==
  Then(useToken(p, "LeftParen"), LAMBDA lp :
  Then(parseExpr(lp.p, Lowest), LAMBDA expr :
  Then(useToken(expr.p, "RightParen"), LAMBDA rp :
    Ok(rp.p, expr.v))))

\* the loop of parseArrLit with the closing bracket looked for only before
\* the first element and after an element no comma follows
parseArrLitLoopNoTrailingComma(p, elems) ==
  IF currTokenIs(p, "RightBracket") /\ elems = <<>> THEN Ok(p, elems)
  ELSE Then(parseExpr(p, Lowest), LAMBDA expr :
         IF currTokenIs(expr.p, "Comma")
           THEN Then(useToken(expr.p, "Comma"), LAMBDA c :
                  parseArrLitLoopNoTrailingComma(c.p, Append(elems, expr.v)))
           ELSE Ok(expr.p, Append(elems, expr.v)))

\* the while (true) of parseArrLit: yields the elements
parseArrLitLoop(p, elems) ==
  IF currTokenIs(p, "RightBracket") THEN Ok(p, elems)
  ELSE Then(parseExpr(p, Lowest), LAMBDA expr :
         IF currTokenIs(expr.p, "Comma")
           THEN Then(useToken(expr.p, "Comma"), LAMBDA c :
                  parseArrLitLoop(c.p, Append(elems, expr.v)))
           ELSE Ok(expr.p, Append(elems, expr.v)))

parseArrLit(p) ==
  Then(useToken(p, "LeftBracket"), LAMBDA leftBracket :
  Then(parseArrLitLoop(leftBracket.p, <<>>), LAMBDA elems :
  Then(useToken(elems.p, "RightBracket"), LAMBDA rightBracket :
    Ok(rightBracket.p, ArrLit(leftBracket.v, elems.v, rightBracket.v)))))

\* prefixParselet(this)
ApplyPrefixParselet(fn, p) ==
  CASE fn = "parseIdent" -> parseIdent(p)
    [] fn = "parseBoolLit" -> parseBoolLit(p)
    [] fn = "parseNumLit" -> parseNumLit(p)
    [] fn = "parseStrLit" -> parseStrLit(p)
    [] fn = "parseArrLit" -> parseArrLit(p)
    [] fn = "parseExprGroup" -> parseExprGroup(p)
    [] fn = "parseUnaryPrefixExpr" -> parseUnaryPrefixExpr(p)

\* infixParselet(this, expr): calling undefined raises a TypeError
ApplyInfixParselet(fn, p, expr) ==
  IF fn = "undefined" THEN Raise(p, TypeError("infixParselet is not a function"))
  ELSE parseBinaryInfixExpr(p, expr)

\* the while loop of parseExpr
parseExprLoop(p, expr, minPrecedence) ==
  IF currPrecedence(p) > minPrecedence
    THEN Then(ApplyInfixParselet(lookupInfixParselet(p.currToken), p, expr), LAMBDA r :
           parseExprLoop(r.p, r.v, minPrecedence))
    ELSE Ok(p, expr)

parseExpr(p, minPrecedence) ==
  IF noPrefixParseletExists(p.currToken)
    THEN throwPrefixParsingError(p, p.currToken)
    ELSE Then(ApplyPrefixParselet(lookupPrefixParselet(p.currToken), p), LAMBDA r :
           parseExprLoop(r.p, r.v, minPrecedence))

parseExprStmt(p) ==
  Then(parseExpr(p, Lowest), LAMBDA expr :
  Then(expectExprTerminator(expr.p), LAMBDA e :
  Then(expectStmtTerminator(e.p), LAMBDA s :
  Then(useAnyToken(s.p), LAMBDA t :
    Ok(t.p, ExprStmt(expr.v))))))

\* the while (true) of parseBlock: yields the statements
RECURSIVE parseBlockLoop(_, _)
parseBlockLoop(p, stmts) ==
  IF currTokenIs(p, "Dedent")
    THEN Then(useToken(p, "Dedent"), LAMBDA d : Ok(d.p, stmts))
    ELSE Then(parseExprStmt(p), LAMBDA stmt :
           parseBlockLoop(stmt.p, Append(stmts, stmt.v)))

parseBlock(p) ==
  Then(useToken(p, "Colon"), LAMBDA c :
  Then(useToken(c.p, "Indent"), LAMBDA i :
  Then(parseBlockLoop(i.p, <<>>), LAMBDA stmts :
    Ok(stmts.p, Block(stmts.v)))))

\* the while loop of parseIfStmt: yields the elif clauses
RECURSIVE parseElifClauses(_, _)
parseElifClauses(p, elifClauses) ==
  IF currTokenIs(p, "Elif")
    THEN Then(useToken(p, "Elif"), LAMBDA k :
         Then(parseExpr(k.p, Lowest), LAMBDA elifCond :
         Then(parseBlock(elifCond.p), LAMBDA elifClause :
           parseElifClauses(elifClause.p,
                            Append(elifClauses, ElifClause(elifCond.v, elifClause.v))))))
    ELSE Ok(p, elifClauses)

parseIfStmt(p) ==
  Then(useToken(p, "If"), LAMBDA k :
  Then(parseExpr(k.p, Lowest), LAMBDA ifCond :
  Then(parseBlock(ifCond.p), LAMBDA ifClause :
  Then(parseElifClauses(ifClause.p, <<>>), LAMBDA elifClauses :
    IF currTokenIs(elifClauses.p, "Else")
      THEN Then(useToken(elifClauses.p, "Else"), LAMBDA e :
           Then(parseBlock(e.p), LAMBDA elseClause :
             Ok(elseClause.p,
                IfStmt(ifCond.v, ifClause.v, elifClauses.v, elseClause.v))))
      ELSE Ok(elifClauses.p, IfStmt(ifCond.v, ifClause.v, elifClauses.v, Null))))))

\* new ast.WhileStmt raises a TypeError when ast.ts exports no such class
parseWhileStmt(p) ==
  Then(useToken(p, "While"), LAMBDA k :
  Then(parseExpr(k.p, Lowest), LAMBDA cond :
  Then(parseBlock(cond.p), LAMBDA clause :
    IF "WhileStmt" \in AstExports
      THEN Ok(clause.p, WhileStmt(cond.v, clause.v))
      ELSE Raise(clause.p, TypeError("ast.WhileStmt is not a constructor")))))

parseStmt(p) ==
  CASE p.currToken.type = "If" -> parseIfStmt(p)
    [] p.currToken.type = "While" -> parseWhileStmt(p)
    [] OTHER -> parseExprStmt(p)

\* the while (true) of parseProg: yields the statements
RECURSIVE parseProgLoop(_, _)
parseProgLoop(p, stmts) ==
  Then(parseStmt(p), LAMBDA stmt :
    IF currTokenIs(stmt.p, "EOF") THEN Ok(stmt.p, Append(stmts, stmt.v))
    ELSE parseProgLoop(stmt.p, Append(stmts, stmt.v)))

parseProg(p) ==
  Then(parseProgLoop(p, <<>>), LAMBDA stmts : Ok(stmts.p, Program(stmts.v)))

(***************************************************************************)
(* The scanner specification: one scanner on one input, nextToken called   *)
(* again and again.  out is the sequence of the tokens nextToken has       *)
(* returned, thrown the exception the last call raised.                    *)
(***************************************************************************)
LexAlphabet == {"a", "1", " ", LF, "@", ";", QUOTE, "#"}

NoResult == [call |-> "none", v |-> Nil]

Init ==
  /\ input \in Texts(LexAlphabet, MaxLen)
  /\ lexer = Lexer(input)
  /\ out = <<>>
  /\ thrown = NoExc
  /\ phase = "lexing"
  /\ currToken = NoToken
  /\ result = NoResult

\* the caller's view of a call of nextToken that ended as r
Returned(r) ==
  /\ lexer' = r.l
  /\ thrown' = r.exc
  /\ out' = IF r.exc.kind = "none" THEN Append(out, r.tok) ELSE out

\* one call of lexer.nextToken()
CallNextToken ==
  /\ phase = "lexing"
  /\ Len(out) < MaxCalls
  /\ thrown.kind # "hang"
  /\ Returned(nextToken(lexer))
  /\ UNCHANGED <<input, phase, currToken, result>>

Next == CallNextToken

Spec == Init /\ [][Next]_vars

\* the scanner on the inputs made of words, spaces and line breaks: long
\* enough for two levels of indentation
IndentAlphabet == {"a", " ", LF}

IndentInit ==
  /\ input \in Texts(IndentAlphabet, MaxIndentLen)
  /\ lexer = Lexer(input)
  /\ out = <<>>
  /\ thrown = NoExc
  /\ phase = "lexing"
  /\ currToken = NoToken
  /\ result = NoResult

IndentSpec == IndentInit /\ [][Next]_vars

(***************************************************************************)
(* The parser specifications: new Parser(input), then parseProg() or, as   *)
(* the tests do, parseExpr(0).  lexer is the parser's scanner, out the     *)
(* tokens the scanner has returned to the parser, thrown the exception     *)
(* that ended the call, result the value returned.                         *)
(***************************************************************************)
ParseAlphabet == {"a", "+", ";", ",", "(", ")", "@", " ", LF}

ArrAlphabet == {"a", "[", "]", ","}

BinaryOps == {"+", "-", "*", "/", "="}

UnaryOps == {"-", "!"}

\* the expressions of exactly n characters built from the operand a,
\* parentheses, the binary operators and the unary prefix operators
RECURSIVE ExprTexts(_)
ExprTexts(n) ==
  IF n < 1 THEN {}
  ELSE IF n = 1 THEN {<<"a">>}
  ELSE {<<"(">> \o e \o <<")">> : e \in ExprTexts(n - 2)}
       \cup {<<u>> \o e : u \in UnaryOps, e \in ExprTexts(n - 1)}
       \cup UNION {{e1 \o <<o>> \o e2 :
                      e1 \in ExprTexts(k), o \in BinaryOps, e2 \in ExprTexts(n - 1 - k)} :
                   k \in 1..(n - 2)}

ParserOf == [input |-> input, lexer |-> lexer, currToken |-> currToken, toks |-> out]

ParseInit(inputs) ==
  /\ input \in inputs
  /\ lexer = Lexer(input)
  /\ out = <<>>
  /\ thrown = NoExc
  /\ phase = "new"
  /\ currToken = NoToken
  /\ result = NoResult

Finish(call, r, nextPhase) ==
  /\ lexer' = r.p.lexer
  /\ out' = r.p.toks
  /\ currToken' = r.p.currToken
  /\ thrown' = r.exc
  /\ result' = [call |-> call, v |-> r.v]
  /\ phase' = IF Failed(r) THEN "done" ELSE nextPhase
  /\ UNCHANGED input

\* new Parser(input)
NewParser ==
  /\ phase = "new"
  /\ Finish("constructor", Parser(input), "ready")

\* p.parseProg()
ParseProg ==
  /\ phase = "ready"
  /\ Finish("parseProg", parseProg(ParserOf), "done")

\* p.parseExpr(0)
ParseExpr ==
  /\ phase = "ready"
  /\ Finish("parseExpr", parseExpr(ParserOf, Lowest), "done")

ParseNext == NewParser \/ ParseProg \/ ParseExpr

ParseSpec == ParseInit(Texts(ParseAlphabet, MaxParseLen)) /\ [][ParseNext]_vars

ExprSpec == ParseInit(UNION {ExprTexts(n) : n \in 1..MaxExprLen}) /\ [][ParseNext]_vars

ArrSpec == ParseInit(Texts(ArrAlphabet, MaxArrLen)) /\ [][ParseNext]_vars

(***************************************************************************)
(* Further specifications of the parser and the scanner, each on the       *)
(* inputs that make one part of them run.                                  *)
(***************************************************************************)
\* parenthesised groups: the inputs begin with the opening parenthesis
GroupSpec ==
  /\ ParseInit({<<"(">> \o t : t \in Texts({"2", "(", ")", "+", " ", ";"}, MaxGroupLen)})
  /\ [][ParseNext]_vars

\* operands and what may stand in their place
PrefixSpec ==
  /\ ParseInit(Texts({"a", "5", "*", "]", "(", "+"}, MaxPrefixLen))
  /\ [][ParseNext]_vars

\* p.parseBlock()
ParseBlock ==
  /\ phase = "ready"
  /\ Finish("parseBlock", parseBlock(ParserOf), "done")

\* blocks: colon, line break, indentation, statement, comment
BlockSpec ==
  /\ ParseInit(Texts({":", LF, " ", "a", ";", "#"}, MaxBlockLen))
  /\ [][NewParser \/ ParseBlock]_vars

\* the lines the programs of the statement specification are made of: those
\* of the fixture statements/if.txt, a while line, and nested ones
Line ==
  [IfTrue |-> <<"i", "f", " ", "T", "r", "u", "e", ":">>,
   Assign |-> <<" ", " ", "a", " ", "=", " ", "b", " ", "+", " ", "c", ";">>,
   Else |-> <<"e", "l", "s", "e", ":">>,
   Elif |-> <<"e", "l", "i", "f", " ", "x", ":">>,
   While |-> <<"w", "h", "i", "l", "e", " ", "x", ":">>,
   NestedIf |-> <<" ", " ", "i", "f", " ", "x", ":">>,
   NestedWhile |-> <<" ", " ", "w", "h", "i", "l", "e", " ", "x", ":">>,
   Deep |-> <<" ", " ", " ", " ", "a", ";">>]

\* the lines ls joined by line breaks
RECURSIVE Join(_)
Join(ls) ==
  IF Len(ls) = 1 THEN ls[1] ELSE ls[1] \o <<LF>> \o Join(Tail(ls))

\* the sequences of one to n lines
LineSeqs(n) == UNION {[1..k -> {Line[f] : f \in DOMAIN Line}] : k \in 1..n}

StmtSpec == ParseInit({Join(ls) : ls \in LineSeqs(MaxLines)}) /\ [][ParseNext]_vars

\* getLineCol on every offset of the input
LineColInit ==
  /\ input \in Texts({"a", " ", LF}, MaxLineColLen)
  /\ lexer = Lexer(input)
  /\ out = <<>>
  /\ thrown = NoExc
  /\ phase = "locating"
  /\ currToken = NoToken
  /\ result = NoResult

\* lexer.getLineCol(loc)
GetLineCol ==
  /\ phase = "locating"
  /\ \E loc \in 0..Len(input) :
       result' = [call |-> "getLineCol", loc |-> loc, v |-> getLineCol(lexer, loc)]
  /\ UNCHANGED <<input, lexer, out, thrown, phase, currToken>>

LineColSpec == LineColInit /\ [][GetLineCol]_vars

\* the scanner on words: the reserved spellings, the boolean literals, words
\* that begin with a reserved spelling, and a name every object inherits
Words ==
  {<<"i", "f">>,
   <<"e", "l", "i", "f">>,
   <<"e", "l", "s", "e">>,
   <<"w", "h", "i", "l", "e">>,
   <<"T", "r", "u", "e">>,
   <<"F", "a", "l", "s", "e">>,
   <<"a", "n", "d">>,
   <<"n", "o", "t">>,
   <<"o", "r">>,
   <<"i", "f", "x">>,
   <<"i", "f", "1">>,
   <<"_", "i", "f">>,
   <<"a">>,
   <<"w", "h", "i", "l", "e", "s">>,
   <<"c", "o", "n", "s", "t", "r", "u", "c", "t", "o", "r">>}

\* one to n words with a space between them
RECURSIVE WordTexts(_)
WordTexts(n) ==
  IF n = 1 THEN Words
  ELSE WordTexts(n - 1) \cup {t \o <<" ">> \o w : t \in WordTexts(n - 1), w \in Words}

WordInit ==
  /\ input \in WordTexts(MaxWords)
  /\ lexer = Lexer(input)
  /\ out = <<>>
  /\ thrown = NoExc
  /\ phase = "lexing"
  /\ currToken = NoToken
  /\ result = NoResult

WordSpec == WordInit /\ [][Next]_vars

\* new Lexer(input) on one of the inputs, the caller being in the phase ph
LexInit(inputs, ph) ==
  /\ input \in inputs
  /\ lexer = Lexer(input)
  /\ out = <<>>
  /\ thrown = NoExc
  /\ phase = ph
  /\ currToken = NoToken
  /\ result = NoResult

\* the scanner on the punctuation characters and the space
PunctSpec ==
  /\ LexInit(Texts({"*", ":", ";", "!", ",", "-", "[", "(", "+", "]", ")", "/", "<", "=", ">",
                    " "}, MaxPunctLen), "lexing")
  /\ [][Next]_vars

\* this.state = this.state(this): one run of the current state function, the
\* tokens staying in the buffer, up to the first EOF token
RunStep ==
  /\ phase = "stepping"
  /\ thrown = NoExc
  /\ lexer.state # "null"
  /\ \A i \in 1..Len(lexer.buffer) : lexer.buffer[i].type # "EOF"
  /\ lexer' = [RunState(lexer).l EXCEPT !.state = RunState(lexer).next]
  /\ thrown' = RunState(lexer).exc
  /\ UNCHANGED <<input, out, phase, currToken, result>>

\* the scanner run state function by state function, and the parser, on the
\* inputs of the scanner and on lines indented by zero to two spaces
StepSpec ==
  /\ \/ LexInit(Texts(LexAlphabet, MaxLen), "stepping")
     \/ LexInit({Join(ls) : ls \in UNION {[1..k -> {<<>>, <<"a">>, <<" ", "a">>,
                                                     <<" ", " ", "a">>}] :
                                           k \in 1..MaxIndentLines}}, "stepping")
     \/ LexInit(Texts(LexAlphabet, MaxLen), "new")
  /\ [][RunStep \/ NewParser \/ ParseProg]_vars

\* the while (true) of nextToken goes on to its next run whenever there is
\* one: the runs of the state functions under weak fairness, on the inputs of
\* up to MaxFairLen characters
StepFairSpec ==
  /\ LexInit(Texts({"a", " ", LF, "@"}, MaxFairLen), "stepping")
  /\ [][RunStep]_vars
  /\ WF_vars(RunStep)

\* removeTrailingWhitespace on the input, then on what it returned
Trim ==
  /\ phase = "trimming"
  /\ IF result.call = "none" THEN TRUE ELSE result.n < MaxTrims
  /\ result' = [call |-> "removeTrailingWhitespace",
                arg |-> IF result.call = "none" THEN input ELSE result.v,
                v |-> removeTrailingWhitespace(IF result.call = "none" THEN input ELSE result.v),
                n |-> IF result.call = "none" THEN 1 ELSE result.n + 1]
  /\ UNCHANGED <<input, lexer, out, thrown, phase, currToken>>

TrimSpec ==
  /\ LexInit(Texts({"a", " ", TAB, CR, FF, LF}, MaxTrimLen), "trimming")
  /\ [][Trim]_vars

\* the scanner on numbers and what follows them
NumSpec ==
  /\ LexInit(Texts({"1", ".", "e", "+", "a", " "}, MaxNumLen) \cup {<<"1", "2", "3", "a">>},
             "lexing")
  /\ [][Next]_vars

\* one call of l.nextChar(), l.accept(valid) or l.acceptRun(valid), as the
\* tests make them on a new scanner; a scanner whose pos has gone below 0 is
\* not called again
CallMethod ==
  /\ phase = "calling"
  /\ lexer.pos >= 0
  /\ \E m \in {"nextChar", "accept", "acceptRun"}, valid \in SUBSET {"x", "y"} :
       /\ m = "nextChar" => valid = {}
       /\ lexer' = CASE m = "nextChar" -> nextChar(lexer).l
                      [] m = "accept" -> accept(lexer, valid).l
                      [] m = "acceptRun" -> acceptRun(lexer, valid)
       /\ result' = [call |-> m, valid |-> valid,
                     v |-> CASE m = "nextChar" -> nextChar(lexer).c
                             [] m = "accept" -> accept(lexer, valid).ok
                             [] m = "acceptRun" -> Nil]
  /\ UNCHANGED <<input, out, thrown, phase, currToken>>

MethodSpec ==
  /\ LexInit(Texts({"x", "y", "z"}, MaxAcceptLen), "calling")
  /\ [][CallMethod]_vars

\* the scanner on lines indented by zero to two spaces that hold a word, a
\* comment or a string: two levels of indentation are left at one line break
DedentSpec ==
  /\ LexInit({Join(ls) :
               ls \in UNION {[1..k -> {<<>>, <<"a">>, <<" ", "a">>, <<" ", " ", "a">>,
                                       <<"#">>, <<QUOTE, QUOTE>>}] :
                             k \in 1..MaxIndentLines}},
             "lexing")
  /\ [][Next]_vars

(***************************************************************************)
(* Reference definitions the properties below are stated with.  They are   *)
(* written from the input text alone and use nothing of the scanner or     *)
(* the parser above.                                                       *)
(***************************************************************************)
Last(s) == s[Len(s)]

HasType(s, typ) == \E i \in 1..Len(s) : s[i].type = typ

Count(s, typ) == Cardinality({i \in 1..Len(s) : s[i].type = typ})

\* the 1-based line and column of the 0-based offset loc of the text in
LineOf(in, loc) == 1 + Cardinality({i \in 1..loc : in[i] = LF})

ColOf(in, loc) ==
  loc + 1 - (CHOOSE k \in 0..loc :
               /\ (k = 0 \/ in[k] = LF)
               /\ \A j \in (k + 1)..loc : in[j] # LF)

IsUnexpected(msg) == Len(msg) = 3 /\ msg[1] = "unexpected '" /\ msg[3] = "'"

IsExpectedGot(msg) ==
  Len(msg) = 5 /\ msg[1] = "expected '" /\ msg[3] = "', got '" /\ msg[5] = "'"

\* an operator character of an expression text is binary when an operand
\* ends right before it, and unary otherwise
IsBinaryAt(s, i) == i > 1 /\ s[i] \in BinaryOps /\ s[i - 1] \in {"a", ")"}

IsUnaryAt(s, i) == s[i] \in (BinaryOps \cup UnaryOps) /\ ~IsBinaryAt(s, i)

HasUnary(s) == \E i \in 1..Len(s) : IsUnaryAt(s, i)

\* how many parentheses opened in s[lo..i-1] are still open at i
Depth(s, lo, i) ==
  Cardinality({k \in lo..(i - 1) : s[k] = "("})
    - Cardinality({k \in lo..(i - 1) : s[k] = ")"})

\* the binding strength of a binary operator: the higher binds tighter
Level(c) ==
  CASE c = "=" -> 1
    [] c \in {"+", "-"} -> 2
    [] c \in {"*", "/"} -> 3

\* the binary operators of s[lo..hi] that stand outside every parenthesis
TopOps(s, lo, hi) ==
  {i \in (lo + 1)..hi : IsBinaryAt(s, i) /\ Depth(s, lo, i) = 0}

\* the operator s[lo..hi] is split at: of the weakest level, and the last
\* of that level
SplitAt(s, lo, hi) ==
  CHOOSE i \in TopOps(s, lo, hi) :
    \A j \in TopOps(s, lo, hi) :
      \/ Level(s[i]) < Level(s[j])
      \/ Level(s[i]) = Level(s[j]) /\ j <= i

RefType(c) ==
  CASE c = "a" -> "Ident"
    [] c = "+" -> "Plus"
    [] c = "-" -> "Dash"
    [] c = "*" -> "Asterisk"
    [] c = "/" -> "Slash"
    [] c = "=" -> "Assign"
    [] c = "!" -> "Bang"

RefToken(s, i) == [type |-> RefType(s[i]), literal |-> <<s[i]>>, loc |-> i - 1]

\* the tree of the expression text s[lo..hi]
RECURSIVE RefTree(_, _, _)
RefTree(s, lo, hi) ==
  IF TopOps(s, lo, hi) # {}
    THEN Let(SplitAt(s, lo, hi), LAMBDA k :
           [node |-> "BinaryExpr", token |-> RefToken(s, k),
            a |-> RefTree(s, lo, k - 1), b |-> RefTree(s, k + 1, hi)])
  ELSE IF s[lo] \in (BinaryOps \cup UnaryOps)
    THEN [node |-> "UnaryExpr", token |-> RefToken(s, lo), a |-> RefTree(s, lo + 1, hi)]
  ELSE IF s[lo] = "("
    THEN RefTree(s, lo + 1, hi - 1)
  ELSE [node |-> "Ident", token |-> RefToken(s, lo)]

\* every operand of a unary operator in e is a primary expression: it is a
\* binary expression only when a parenthesis follows the operator in s
RECURSIVE UnaryOperandsPrimary(_, _)
UnaryOperandsPrimary(e, s) ==
  CASE e.node = "UnaryExpr" ->
         /\ e.a.node = "BinaryExpr" => s[e.token.loc + 2] = "("
         /\ UnaryOperandsPrimary(e.a, s)
    [] e.node = "BinaryExpr" ->
         UnaryOperandsPrimary(e.a, s) /\ UnaryOperandsPrimary(e.b, s)
    [] OTHER -> TRUE

\* the offset of the first character of the expression e
ExprStart(e) == IF e.node = "ArrLit" THEN e.leftBracket.loc ELSE e.token.loc

\* how many brackets opened in s[lo..i-1] are still open at i
BracketDepth(s, lo, i) ==
  Cardinality({k \in lo..(i - 1) : s[k] = "["})
    - Cardinality({k \in lo..(i - 1) : s[k] = "]"})

\* the commas of the array literal s[lo..hi] that separate its own elements
TopCommas(s, lo, hi) ==
  {i \in (lo + 1)..(hi - 1) : s[i] = "," /\ BracketDepth(s, lo, i) = 1}

\* the text s with the character c put in after its first k characters
InsertAt(s, k, c) == SubSeq(s, 1, k) \o <<c>> \o SubSeq(s, k + 1, Len(s))

\* the outcome of new Parser(in).parseExpr(0)
ParseExprOf(in) == Then(Parser(in), LAMBDA r : parseExpr(r.p, Lowest))

\* how many statements the delivered tokens hold up to the first EOF
StatementsIn(toks) ==
  Let(CHOOSE i \in 1..Len(toks) :
        toks[i].type = "EOF" /\ \A j \in 1..(i - 1) : toks[j].type # "EOF",
      LAMBDA e :
        Count(SubSeq(toks, 1, e), "SemiColon")
          + (IF e > 1 /\ toks[e - 1].type # "SemiColon" THEN 1 ELSE 0))

ParsedProg == phase = "done" /\ result.call = "parseProg"

ParsedExpr == phase = "done" /\ result.call = "parseExpr"

ParsedArr == ParsedExpr /\ thrown = NoExc /\ result.v.node = "ArrLit"

(***************************************************************************)
(* Properties of the scanner.                                              *)
(***************************************************************************)
\* C1: once nextToken has returned an Error token, every later call of
\* nextToken on that scanner returns, and returns that same token (same kind,
\* message and offset); no other token is delivered after it.
C1_ErrorTokenSticky ==
  [][(out # <<>> /\ Last(out).type = "Error")
       => (thrown' = NoExc /\ out' = Append(out, Last(out)))]_vars

\* an identifier, then the error token delivered twice
C1_Witness ==
  /\ Len(out) >= 3
  /\ out[1].type = "Ident"
  /\ out[Len(out) - 1].type = "Error"
  /\ Last(out) = out[Len(out) - 1]

\* C2: once nextToken has returned an EOF token, every later call returns an
\* EOF token again and changes neither pos nor the indentation stack.
C2_EOFRepeats ==
  [][(out # <<>> /\ Last(out).type = "EOF")
       => /\ thrown' = NoExc
          /\ Len(out') = Len(out) + 1
          /\ Last(out').type = "EOF"
          /\ lexer'.pos = lexer.pos
          /\ lexer'.indentStack = lexer.indentStack]_vars

\* an indented block closed at end-of-input, then EOF delivered twice
C2_Witness ==
  /\ Len(out) >= 3
  /\ HasType(out, "Dedent")
  /\ out[Len(out) - 1].type = "EOF"
  /\ Last(out).type = "EOF"

\* C3: the tokens delivered up to and including an EOF hold as many Indent as
\* Dedent tokens, and the indentation stack is <<0>> from the moment the EOF
\* token is emitted.
C3_IndentsBalanced ==
  /\ \A i \in 1..Len(out) :
       out[i].type = "EOF" =>
         Count(SubSeq(out, 1, i), "Indent") = Count(SubSeq(out, 1, i), "Dedent")
  /\ (HasType(out, "EOF") \/ HasType(lexer.buffer, "EOF")) => lexer.indentStack = <<0>>

\* two nested indented blocks, both closed by the EOF
C3_Witness ==
  /\ out # <<>>
  /\ Last(out).type = "EOF"
  /\ Count(out, "Indent") = 2
  /\ Count(out, "Dedent") = 2

\* lexLineBreak has just measured a line that holds spaces only: the cursor
\* stands behind a space and before a line break, the state is still
\* lexLineBreak
BlankIndentedLineMeasured ==
  /\ lexer.state = "lexLineBreak"
  /\ lexer.pos >= 1
  /\ lexer.input[lexer.pos] = " "
  /\ peekChar(lexer) = LF

\* C5: a whitespace-only line of nonzero measured depth is reported as the
\* other lexical errors are: the call of nextToken that measured it returns
\* an Error token and raises nothing.
C5_BlankLineIsErrorToken ==
  BlankIndentedLineMeasured
    => (thrown = NoExc /\ out # <<>> /\ Last(out).type = "Error")

(***************************************************************************)
(* Properties of the parser.                                               *)
(***************************************************************************)
\* C4: every failing parseProg raises a SyntaxError, and its message is
\* unexpected '<symbol>' or expected '<symbol>', got '<symbol>'.
C4_FailureIsSyntaxError ==
  (ParsedProg /\ thrown # NoExc)
    => /\ thrown.kind = "SyntaxError"
       /\ IsUnexpected(thrown.msg) \/ IsExpectedGot(thrown.msg)

\* C6: an Error token is the last token the parser requests from the
\* scanner, and a parseProg that was delivered one raises a SyntaxError at
\* the line and column of the error token's offset.
C6_ErrorTokenIsFatal ==
  /\ \A i \in 1..Len(out) : out[i].type = "Error" => i = Len(out)
  /\ (ParsedProg /\ HasType(out, "Error"))
       => /\ thrown.kind = "SyntaxError"
          /\ thrown.line = LineOf(input, Last(out).loc)
          /\ thrown.col = ColOf(input, Last(out).loc)

\* an identifier, then an error token on the second line
C6_Witness ==
  /\ ParsedProg
  /\ Len(out) >= 2
  /\ out[1].type = "Ident"
  /\ Last(out).type = "Error"
  /\ thrown.kind = "SyntaxError"
  /\ thrown.line = 2

\* C7: for an expression of operands, parentheses and the binary operators
\* + - * / =, parseExpr returns the tree in which the tighter level binds
\* first and equal levels group to the left, a parenthesised group adding no
\* node: a+a+a is (+ (+ a a) a), a+a*a is (+ a (* a a)), (a+a)*a is
\* (* (+ a a) a).
C7_PrecedenceLeftAssoc ==
  (ParsedExpr /\ ~HasUnary(input))
    => /\ thrown = NoExc
       /\ currToken.type = "EOF"
       /\ result.v = RefTree(input, 1, Len(input))
       /\ input = <<"a", "+", "a", "+", "a">>
            => exprToString(result.v)
                 = <<"(", "+", " ", "(", "+", " ", "a", " ", "a", ")", " ", "a", ")">>
       /\ input = <<"a", "+", "a", "*", "a">>
            => exprToString(result.v)
                 = <<"(", "+", " ", "a", " ", "(", "*", " ", "a", " ", "a", ")", ")">>
       /\ input = <<"(", "a", "+", "a", ")", "*", "a">>
            => exprToString(result.v)
                 = <<"(", "*", " ", "(", "+", " ", "a", " ", "a", ")", " ", "a", ")">>

\* a sum whose right operand is a product
C7_Witness ==
  /\ ParsedExpr
  /\ ~HasUnary(input)
  /\ result.v.node = "BinaryExpr"
  /\ result.v.token.type = "Plus"
  /\ result.v.b.node = "BinaryExpr"
  /\ result.v.b.token.type = "Asterisk"

\* C8: a unary prefix operator - or ! binds tighter than every binary
\* operator, its operand being the primary expression that follows it:
\* -a+a is (+ (- a) a) and a--a is (- a (- a)).
C8_UnaryBindsTighter ==
  (ParsedExpr /\ HasUnary(input))
    => /\ thrown = NoExc
       /\ currToken.type = "EOF"
       /\ UnaryOperandsPrimary(result.v, input)
       /\ result.v = RefTree(input, 1, Len(input))
       /\ input = <<"-", "a", "+", "a">>
            => exprToString(result.v)
                 = <<"(", "+", " ", "(", "-", " ", "a", ")", " ", "a", ")">>
       /\ input = <<"a", "-", "-", "a">>
            => exprToString(result.v)
                 = <<"(", "-", " ", "a", " ", "(", "-", " ", "a", ")", ")">>

\* a binary expression whose left operand is a unary expression
C8_Witness ==
  /\ ParsedExpr
  /\ HasUnary(input)
  /\ result.v.node = "BinaryExpr"
  /\ result.v.a.node = "UnaryExpr"

\* C9: an expression statement ends only at ; or end-of-input, which is
\* consumed, so a successful parseProg yields one statement per terminated
\* expression; any other token after a top-level expression raises
\* unexpected '<symbol>' at that token's line and column.
C9_OtherTokenUnexpected ==
  /\ (ParsedProg /\ thrown = NoExc)
       => /\ currToken.type = "EOF"
          /\ Len(result.v.stmts) = StatementsIn(out)
  /\ (/\ ParsedProg
      /\ thrown # NoExc
      /\ Len(out) >= 2
      /\ out[Len(out) - 1].type = "Ident"
      /\ Last(out).type \notin {"SemiColon", "EOF"}
      /\ \A i \in 1..(Len(out) - 1) : out[i].type # "LeftParen")
       => thrown = [kind |-> "SyntaxError", input |-> input,
                    msg |-> <<"unexpected '", tokenTypeToSymbol(Last(out).type), "'">>,
                    line |-> LineOf(input, Last(out).loc),
                    col |-> ColOf(input, Last(out).loc)]

\* C10: an array literal takes zero or more comma-separated elements and one
\* optional trailing comma: its elements are in source order, one per
\* separating comma and one more, the literal with a trailing comma put in
\* has the same elements, [] is the empty array, and a comma with no element
\* before it is rejected.
C10_ArrayTrailingComma ==
  /\ ParsedArr
       => /\ \A i, j \in 1..Len(result.v.elems) :
               i < j => ExprStart(result.v.elems[i]) < ExprStart(result.v.elems[j])
          /\ Len(result.v.elems)
               = Cardinality(TopCommas(input, result.v.leftBracket.loc + 1,
                                       result.v.rightBracket.loc + 1))
                 + (IF input[result.v.rightBracket.loc] \in {"[", ","} THEN 0 ELSE 1)
          /\ \A i \in TopCommas(input, result.v.leftBracket.loc + 1,
                                result.v.rightBracket.loc + 1) :
               input[i - 1] \notin {"[", ","}
          /\ input[result.v.rightBracket.loc] \notin {"[", ","}
               => /\ ParseExprOf(InsertAt(input, result.v.rightBracket.loc, ",")).exc = NoExc
                  /\ ParseExprOf(InsertAt(input, result.v.rightBracket.loc, ",")).v.elems
                       = result.v.elems
  /\ (ParsedExpr /\ input = <<"[", "]">>)
       => (thrown = NoExc /\ result.v.node = "ArrLit" /\ result.v.elems = <<>>)
  /\ (ParsedExpr /\ Len(input) >= 2 /\ input[1] = "[" /\ input[2] = ",")
       => thrown = [kind |-> "SyntaxError", input |-> input,
                    msg |-> <<"unexpected '", ",", "'">>, line |-> 1, col |-> 2]

\* two elements and a trailing comma
C10_Witness ==
  /\ ParsedArr
  /\ Len(result.v.elems) = 2
  /\ input[result.v.rightBracket.loc] = ","

(***************************************************************************)
(* Properties of groups, operands, blocks and statements.                  *)
(***************************************************************************)
Types(toks) == [i \in 1..Len(toks) |-> toks[i].type]

\* the token types ts spell a complete expression of numbers, + and
\* parentheses
RECURSIVE IsExprTypes(_)
IsExprTypes(ts) ==
  /\ Len(ts) >= 1
  /\ \/ ts = <<"Num">>
     \/ /\ Len(ts) >= 3
        /\ ts[1] = "LeftParen"
        /\ ts[Len(ts)] = "RightParen"
        /\ IsExprTypes(SubSeq(ts, 2, Len(ts) - 1))
     \/ \E k \in 2..(Len(ts) - 1) :
          /\ ts[k] = "Plus"
          /\ IsExprTypes(SubSeq(ts, 1, k - 1))
          /\ IsExprTypes(SubSeq(ts, k + 1, Len(ts)))

\* the tokens delivered end with a group opened at out[i], its complete inner
\* expression, and a last token that neither closes the group nor goes on
\* with the expression
UnclosedGroupAt(i) ==
  /\ out[i].type = "LeftParen"
  /\ i + 1 <= Len(out) - 1
  /\ IsExprTypes(Types(SubSeq(out, i + 1, Len(out) - 1)))
  /\ Last(out).type \notin {"RightParen", "Plus", "LeftParen"}

PrefixTypes ==
  {"Ident", "Bool", "Num", "Str", "LeftBracket", "LeftParen", "Dash", "Bang"}

\* the type of the token a one-character operator or bracket is
PunctType(c) ==
  CASE c = "*" -> "Asterisk"
    [] c = "+" -> "Plus"
    [] c = "]" -> "RightBracket"

C13_BlockNotEmpty ==
  (phase = "done" /\ result.call = "parseBlock" /\ thrown = NoExc)
    => (result.v.node = "Block" /\ Len(result.v.stmts) >= 1)

\* the lines after the first two of an if statement: statements of the
\* current block, elif headers and at most one else header, the last one,
\* each header followed by a statement
IfProgram(ls) ==
  /\ Len(ls) >= 2
  /\ ls[1] = Line.IfTrue
  /\ ls[2] = Line.Assign
  /\ \A i \in 3..Len(ls) :
       /\ ls[i] \in {Line.Assign, Line.Elif, Line.Else}
       /\ ls[i] \in {Line.Elif, Line.Else} => (i < Len(ls) /\ ls[i + 1] = Line.Assign)
       /\ ls[i] = Line.Else => \A j \in (i + 1)..Len(ls) : ls[j] = Line.Assign

CountLines(ls, line) == Cardinality({i \in 1..Len(ls) : ls[i] = line})

\* C14: if <expr> : <block>, elif clauses in source order and at most one
\* else give one IfStmt with its condition, block, elif clauses and else
\* block; if True: with the indented line a = b + c; gives one IfStmt with
\* the condition True and the one statement (= a (+ b c)).
C14_IfStmt ==
  \A ls \in LineSeqs(MaxLines) :
    (ParsedProg /\ input = Join(ls) /\ IfProgram(ls))
      => /\ thrown = NoExc
         /\ Len(result.v.stmts) = 1
         /\ result.v.stmts[1].node = "IfStmt"
         /\ result.v.stmts[1].ifCond.node = "BoolLit"
         /\ result.v.stmts[1].ifCond.token.literal = <<"T", "r", "u", "e">>
         /\ Len(result.v.stmts[1].elifClauses) = CountLines(ls, Line.Elif)
         /\ (result.v.stmts[1].elseClause = Null) = (CountLines(ls, Line.Else) = 0)
         /\ ls = <<Line.IfTrue, Line.Assign>>
              => /\ Len(result.v.stmts[1].ifClause.stmts) = 1
                 /\ exprToString(result.v.stmts[1].ifClause.stmts[1].expr)
                      = <<"(", "=", " ", "a", " ", "(", "+", " ", "b", " ", "c", ")", ")">>

\* a while line and the statements of its block
WhileProgram(ls) ==
  /\ Len(ls) >= 2
  /\ ls[1] = Line.While
  /\ \A i \in 2..Len(ls) : ls[i] = Line.Assign

\* C15: while <expr> : <block> gives a WhileStmt holding the condition and
\* the block.
C15_WhileStmt ==
  \A ls \in LineSeqs(MaxLines) :
    (ParsedProg /\ input = Join(ls) /\ WhileProgram(ls))
      => /\ thrown = NoExc
         /\ Len(result.v.stmts) = 1
         /\ result.v.stmts[1].node = "WhileStmt"
         /\ result.v.stmts[1].cond.node = "Ident"
         /\ result.v.stmts[1].cond.token.literal = <<"x">>
         /\ result.v.stmts[1].clause.node = "Block"
         /\ Len(result.v.stmts[1].clause.stmts) = Len(ls) - 1

\* C16: a statement inside a block goes through the dispatch of a top-level
\* statement: an if or a while written inside the block of an if gives a
\* nested IfStmt or WhileStmt in that Block.
C16_NestedStatement ==
  /\ (ParsedProg /\ input = Join(<<Line.IfTrue, Line.NestedIf, Line.Deep>>))
       => /\ thrown = NoExc
          /\ result.v.stmts[1].node = "IfStmt"
          /\ result.v.stmts[1].ifClause.stmts[1].node = "IfStmt"
  /\ (ParsedProg /\ input = Join(<<Line.IfTrue, Line.NestedWhile, Line.Deep>>))
       => /\ thrown = NoExc
          /\ result.v.stmts[1].node = "IfStmt"
          /\ result.v.stmts[1].ifClause.stmts[1].node = "WhileStmt"

\* C17: parseProg on an input that holds no statement gives a Program with
\* no statements.
C17_EmptyProgram ==
  (ParsedProg /\ \A i \in 1..Len(input) : input[i] \in {" ", LF})
    => (thrown = NoExc /\ result.v = [node |-> "Program", stmts |-> <<>>])

(***************************************************************************)
(* Properties of getLineCol and of the words.                              *)
(***************************************************************************)
\* C18: for an offset loc from 0 to the length of the input, getLineCol(loc)
\* is the pair of 1 plus the number of line breaks before loc and 1 plus the
\* number of characters between the last of them (or the start) and loc.
C18_LineCol ==
  result.call = "getLineCol"
    => result.v = <<LineOf(input, result.loc), ColOf(input, result.loc)>>

\* the end of an input of three lines, the last one not empty
C18_Witness ==
  /\ result.call = "getLineCol"
  /\ result.loc = Len(input)
  /\ result.v[1] = 3
  /\ result.v[2] >= 2

\* the words of the text s, which a space separates
RECURSIVE WordsOf(_, _)
WordsOf(s, word) ==
  IF s = <<>> THEN <<word>>
  ELSE IF Head(s) = " " THEN <<word>> \o WordsOf(Tail(s), <<>>)
  ELSE WordsOf(Tail(s), Append(word, Head(s)))

\* the kind of token a word is
WordKind(w) ==
  CASE w = <<"i", "f">> -> "If"
    [] w = <<"e", "l", "i", "f">> -> "Elif"
    [] w = <<"e", "l", "s", "e">> -> "Else"
    [] w = <<"w", "h", "i", "l", "e">> -> "While"
    [] w \in {<<"T", "r", "u", "e">>, <<"F", "a", "l", "s", "e">>} -> "Bool"
    [] OTHER -> "Ident"

\* C19: an identifier-like lexeme is the whole run of letters, digits and
\* underscores and is classified by its whole text: if, elif, else and while
\* give If, Elif, Else and While, True and False give Bool, every other text
\* gives Ident.
C19_WordClassified ==
  \A i \in 1..Len(out) :
    i <= Len(WordsOf(input, <<>>))
      => /\ out[i].literal = WordsOf(input, <<>>)[i]
         /\ out[i].type = WordKind(WordsOf(input, <<>>)[i])

\* the reserved kind of a logical word
LogicalKind(w) ==
  CASE w = <<"a", "n", "d">> -> "And"
    [] w = <<"n", "o", "t">> -> "Not"
    [] w = <<"o", "r">> -> "Or"

\* C20: and, not and or are in the keyword table and lex to And, Not and Or,
\* never to Ident.
C20_LogicalWords ==
  \A i \in 1..Len(out) :
    out[i].literal \in {<<"a", "n", "d">>, <<"n", "o", "t">>, <<"o", "r">>}
      => /\ isKeyword(out[i].literal)
         /\ out[i].type = LogicalKind(out[i].literal)

(***************************************************************************)
(* Properties of the tokens of punctuation, numbers, strings and comments. *)
(***************************************************************************)
\* the punctuation kind of a punctuation character
PunctKind(c) ==
  CASE c = "*" -> "Asterisk"
    [] c = ":" -> "Colon"
    [] c = ";" -> "SemiColon"
    [] c = "!" -> "Bang"
    [] c = "," -> "Comma"
    [] c = "-" -> "Dash"
    [] c = "[" -> "LeftBracket"
    [] c = "(" -> "LeftParen"
    [] c = "+" -> "Plus"
    [] c = "]" -> "RightBracket"
    [] c = ")" -> "RightParen"
    [] c = "/" -> "Slash"
    [] c = "<" -> "LessThan"
    [] c = "=" -> "Assign"
    [] c = ">" -> "GreaterThan"

NotSpace(c) == c # " "

\* C21: each of the fifteen punctuation characters lexes to one token of its
\* own punctuation kind whose literal is the character, and isOperatorStart
\* accepts exactly the characters lexOperator classifies.
C21_PunctuationLexes ==
  /\ \A i \in 1..Len(out) :
       i <= Len(SelectSeq(input, NotSpace))
         => /\ out[i].type = PunctKind(SelectSeq(input, NotSpace)[i])
            /\ out[i].literal = <<SelectSeq(input, NotSpace)[i]>>
  /\ out # <<>>
       => \A i \in 1..Len(input) :
            isOperatorStart(input[i]) = (operatorType(input[i]) # "default")

Punctuation ==
  {"*", ":", ";", "!", ",", "-", "[", "(", "+", "]", ")", "/", "<", "=", ">"}

\* the display string of a token kind: the character of a punctuation kind,
\* the category name of the identifier and of the end of the input
SymbolName(typ) ==
  CASE typ = "Ident" -> "IDENT"
    [] typ = "EOF" -> "EOF"
    [] OTHER -> CHOOSE c \in Punctuation : PunctKind(c) = typ

\* C22: tokenTypeToSymbol gives every token kind one fixed string, the
\* character of a punctuation kind and the category name of a categorical
\* kind, which are the names of the error messages: EOF for the end of the
\* input, IDENT for an identifier.
C22_SymbolNames ==
  (/\ phase = "done"
   /\ thrown.kind = "SyntaxError"
   /\ IsUnexpected(thrown.msg)
   /\ currToken.type \in {"Ident", "EOF"} \cup {PunctKind(c) : c \in Punctuation})
    => /\ thrown.msg[2] = SymbolName(currToken.type)
       /\ toSymbol(currToken) = SymbolName(currToken.type)

\* the number of characters of the text s from the index i on that are in S,
\* up to the first that is not
RECURSIVE RunLen(_, _, _)
RunLen(s, i, S) ==
  IF i <= Len(s) /\ s[i] \in S THEN 1 + RunLen(s, i + 1, S) ELSE 0

\* the index after the fraction, a being the index after the leading digits
AfterFraction(s, a) ==
  IF a <= Len(s) /\ s[a] = "." THEN a + 1 + RunLen(s, a + 1, Digits) ELSE a

\* the index after the sign of an exponent, c being the index after its marker
AfterSign(s, c) == IF c <= Len(s) /\ s[c] \in {"+", "-"} THEN c + 1 ELSE c

\* the index after the exponent, b being the index after the fraction
AfterExponent(s, b) ==
  IF b <= Len(s) /\ s[b] \in {"e", "E"}
    THEN AfterSign(s, b + 1) + RunLen(s, AfterSign(s, b + 1), Digits)
    ELSE b

\* the index after the number that begins at the index k of s: digits, a
\* point and digits, an exponent marker with sign and digits
NumberEnd(s, k) == AfterExponent(s, AfterFraction(s, k + RunLen(s, k, Digits)))

\* the index of the first character of s that is no space
FirstChar(s) == 1 + RunLen(s, 1, {" "})

IdentChars ==
  {"_"} \cup {Printable[i] : i \in 17..26} \cup {Printable[i] : i \in 34..59}
        \cup {Printable[i] : i \in 66..91}

StringEnd(s, k) ==
  k + 1 + RunLen(s, k + 1, (DOMAIN CharCodeTable) \ {QUOTE, LF})

\* C24: a string literal runs from its opening quote to the next quote and is
\* one Str token whose literal holds both quotes; when a line break or the
\* end of the input comes first, the token is an Error token with the message
\* unterminated string at the offset of the opening quote.
C24_StringLiteral ==
  /\ \A i \in 1..Len(out) :
       (/\ out[i].type \notin {"Indent", "Dedent", "EOF"}
        /\ out[i].loc < Len(input)
        /\ input[out[i].loc + 1] = QUOTE)
         => IF /\ StringEnd(input, out[i].loc + 1) <= Len(input)
               /\ input[StringEnd(input, out[i].loc + 1)] = QUOTE
              THEN out[i] = [type |-> "Str",
                             literal |-> SubSeq(input, out[i].loc + 1,
                                                StringEnd(input, out[i].loc + 1)),
                             loc |-> out[i].loc]
              ELSE out[i] = [type |-> "Error", literal |-> <<"unterminated string">>,
                             loc |-> out[i].loc]
  /\ (/\ out # <<>>
      /\ FirstChar(input) <= Len(input)
      /\ input[FirstChar(input)] = QUOTE)
       => out[1].loc = FirstChar(input) - 1

\* a string, and after it a quote that nothing closes
C24_Witness ==
  \E i, j \in 1..Len(out) :
    /\ out[i].type = "Str"
    /\ Len(out[i].literal) >= 2
    /\ out[j].type = "Error"
    /\ out[j].literal = <<"unterminated string">>
    /\ out[j].loc > out[i].loc

\* the character c starts no token
StartsNoToken(c) ==
  c \notin IdentChars \cup Punctuation \cup {QUOTE, "#", " ", TAB, CR, LF}

\* the index k of the input is outside every comment
NotInComment(k) ==
  ~ \E j \in 1..(k - 1) :
      /\ input[j] = "#"
      /\ \A m \in j..(k - 1) : input[m] # LF

\* the index k holds the first @ outside a comment, after words, terminators,
\* spaces, line breaks and comments only
FirstStrayAt(k) ==
  /\ input[k] = "@"
  /\ NotInComment(k)
  /\ \A j \in 1..(k - 1) :
       /\ input[j] \in {"a", ";", " ", LF, "#", "@"}
       /\ input[j] = "@" => ~NotInComment(j)

\* C25: a character that starts no token gives an Error token with the
\* message unexpected symbol: '<char>' at the offset of that character,
\* whatever precedes it: tokens, spaces, comments or line breaks; the @ of
\* a word, a line break and @ is at line 2, column 1.
C25_UnexpectedSymbol ==
  /\ \A i \in 1..Len(out) :
       (/\ out[i].type = "Error"
        /\ Len(out[i].literal) = 3
        /\ out[i].literal[1] = "unexpected symbol: '")
         => /\ out[i].loc < Len(input)
            /\ out[i].literal = <<"unexpected symbol: '", input[out[i].loc + 1], "'">>
            /\ StartsNoToken(input[out[i].loc + 1])
  /\ \A k \in 1..Len(input) :
       (FirstStrayAt(k) /\ thrown = NoExc)
         => \A i \in 1..Len(out) :
              /\ out[i].type # "EOF"
              /\ out[i].loc <= k - 1
              /\ out[i].type = "Error"
                   => out[i] = [type |-> "Error",
                                literal |-> <<"unexpected symbol: '", "@", "'">>,
                                loc |-> k - 1]
  /\ (Len(out) >= 2 /\ input = <<"a", LF, "@", " ">>)
       => /\ out[2] = [type |-> "Error",
                       literal |-> <<"unexpected symbol: '", "@", "'">>, loc |-> 2]
          /\ getLineCol(lexer, out[2].loc) = <<2, 1>>

\* @ at the start of the second line, and @ after a comment line
C25_Witness ==
  /\ out # <<>>
  /\ Last(out).type = "Error"
  /\ \/ input = <<"a", LF, "@", " ">>
     \/ input = <<"#", "@", LF, "@">>

\* the kinds of the tokens the scanner l delivers, up to its first EOF or
\* Error token, in at most n calls; "throw" for a call that raises
RECURSIVE ScanTypes(_, _)
ScanTypes(l, n) ==
  IF n = 0 THEN <<>>
  ELSE Let(nextToken(l), LAMBDA r :
         IF r.exc.kind # "none" THEN <<"throw">>
         ELSE IF r.tok.type \in {"EOF", "Error"} THEN <<r.tok.type>>
         ELSE <<r.tok.type>> \o ScanTypes(r.l, n - 1))

\* the text s with the text of every comment deleted and its line break kept
RECURSIVE WithoutComments(_, _)
WithoutComments(s, inComment) ==
  IF s = <<>> THEN <<>>
  ELSE IF Head(s) = LF THEN <<LF>> \o WithoutComments(Tail(s), FALSE)
  ELSE IF inComment \/ Head(s) = "#" THEN WithoutComments(Tail(s), TRUE)
  ELSE <<Head(s)>> \o WithoutComments(Tail(s), FALSE)

\* the scanner has just delivered its first EOF or Error token
ScanComplete ==
  /\ out # <<>>
  /\ thrown = NoExc
  /\ Last(out).type \in {"EOF", "Error"}
  /\ \A i \in 1..(Len(out) - 1) : out[i].type \notin {"EOF", "Error"}

\* C26: a comment gives no token, and the input with the text of its comments
\* deleted and their line breaks kept gives the same sequence of token kinds,
\* the Indent and Dedent tokens of the following line among them.
C26_CommentDeleted ==
  (/\ ScanComplete
   /\ \A i \in 1..Len(input) : input[i] # QUOTE
   /\ Last(ScanTypes(Lexer(WithoutComments(input, FALSE)), MaxCalls)) # "throw")
    => Types(out) = ScanTypes(Lexer(WithoutComments(input, FALSE)), MaxCalls)

(***************************************************************************)
(* Properties of removeTrailingWhitespace.                                 *)
(***************************************************************************)
LineBreaks(s) == Cardinality({i \in 1..Len(s) : s[i] = LF})

\* C27: removeTrailingWhitespace applied to its own output returns it
\* unchanged, and its output has as many line breaks as its input.
C27_TrimIdempotent ==
  result.call = "removeTrailingWhitespace"
    => /\ LineBreaks(result.v) = LineBreaks(result.arg)
       /\ LineBreaks(result.v) = LineBreaks(input)
       /\ result.n >= 2 => result.v = result.arg

\* a second application to a text the first one has shortened to two lines
C27_Witness ==
  /\ result.call = "removeTrailingWhitespace"
  /\ result.n = 2
  /\ Len(result.v) < Len(input)
  /\ LineBreaks(result.v) >= 1

\* the character at the index i of s is a space, tab or carriage return with
\* nothing but such characters between it and the next line break or the end
Trailing(s, i) ==
  /\ s[i] \in {" ", TAB, CR}
  /\ \/ i + RunLen(s, i, {" ", TAB, CR}) > Len(s)
     \/ s[i + RunLen(s, i, {" ", TAB, CR})] = LF

\* the text s from the index i on without its trailing characters
RECURSIVE WithoutTrailing(_, _)
WithoutTrailing(s, i) ==
  IF i > Len(s) THEN <<>>
  ELSE (IF Trailing(s, i) THEN <<>> ELSE <<s[i]>>) \o WithoutTrailing(s, i + 1)

\* C28: the output of removeTrailingWhitespace is the input without exactly
\* the spaces, tabs and carriage returns that come directly before a line
\* break or the end of the input; every other character is kept, in order.
C28_TrimExact ==
  (result.call = "removeTrailingWhitespace" /\ result.n = 1)
    => result.v = WithoutTrailing(input, 1)

(***************************************************************************)
(* Properties of the steps of the scanner.                                 *)
(***************************************************************************)
\* a state function that lexAny enters with the character read is ranked
\* above lexAny, one it enters with the character put back below it
Rank(state) ==
  CASE state \in {"lexLineBreak", "lexComment", "lexString"} -> 2
    [] state = "lexAny" -> 1
    [] OTHER -> 0

\* what is left to do before the next token: the characters not yet read,
\* then the rank of the state function
Measure(l) == 3 * (Len(l.input) - l.pos) + Rank(l.state)

\* a run of a state function raises, puts a token into the buffer or lowers
\* the measure, which is never negative
StepProgress ==
  (phase = "stepping" /\ lexer' # lexer)
    => /\ Measure(lexer') >= 0
       /\ \/ thrown' # NoExc
          \/ Len(lexer'.buffer) > Len(lexer.buffer)
          \/ Measure(lexer') < Measure(lexer)

\* a state function that is run changes the scanner or raises
NoIdleRun ==
  (phase = "stepping" /\ lexer.state # "null")
    => \/ RunState(lexer).exc # NoExc
       \/ [RunState(lexer).l EXCEPT !.state = RunState(lexer).next] # lexer

\* C29: every call of nextToken returns a token after finitely many runs of
\* state functions, and parseProg returns or raises after finitely many token
\* requests: each run raises, delivers a token or lowers a measure that is
\* never negative, no run leaves the scanner as it was, a scanner without a
\* state function has a token to return, no call ends in the loop of nextToken
\* that has nothing to run and nothing to return, and the tokens a parse has
\* requested are at most twice the characters of the input plus two.
C29_Terminates ==
  /\ [][StepProgress]_vars
  /\ []NoIdleRun
  /\ [](thrown.kind # "hang")
  /\ [](lexer.state = "null" => Len(lexer.buffer) >= 1)
  /\ [](phase = "done" => Len(out) <= 2 * Len(input) + 2)

\* the scan has come to its EOF token, to an Error token or to an exception
Terminated ==
  \/ thrown # NoExc
  \/ lexer.state = "null"
  \/ HasType(lexer.buffer, "EOF")

\* under StepFairSpec every scan comes to its end
EventuallyTerminated == <>Terminated

\* a scan that took more runs than tokens to come to its EOF token
C29_Witness ==
  /\ phase = "stepping"
  /\ HasType(lexer.buffer, "EOF")
  /\ HasType(lexer.buffer, "Dedent")
  /\ Len(lexer.buffer) >= 4

\* the offset of the first character after the line breaks at the offset pos
LineStart(pos) == pos + RunLen(input, pos + 1, {LF})

\* the depth of the line at the offset pos: the spaces it begins with
DepthAt(pos) == RunLen(input, LineStart(pos) + 1, {" "})

\* the line at the offset pos holds a character that is no space
NonBlankAt(pos) ==
  /\ LineStart(pos) + DepthAt(pos) < Len(input)
  /\ input[LineStart(pos) + DepthAt(pos) + 1] # LF

\* the number of levels of the stack that are not deeper than d
LevelsUpTo(stack, d) == Cardinality({i \in 1..Len(stack) : stack[i] <= d})

RECURSIVE ScanLexemes(_, _)
ScanLexemes(l, n) ==
  IF n = 0 THEN <<>>
  ELSE Let(nextToken(l), LAMBDA r :
         IF r.exc.kind # "none" THEN <<<<"throw", <<>>>>>>
         ELSE IF r.tok.type \in {"EOF", "Error"} THEN <<<<r.tok.type, r.tok.literal>>>>
         ELSE <<<<r.tok.type, r.tok.literal>>>> \o ScanLexemes(r.l, n - 1))

Lexemes(toks) == [i \in 1..Len(toks) |-> <<toks[i].type, toks[i].literal>>]

\* out holds the tokens of the input up to its first EOF or Error token, and
\* no call has raised
ScannedWhole ==
  /\ out # <<>>
  /\ thrown = NoExc
  /\ ScanLexemes(Lexer(input), MaxCalls + 1) = Lexemes(out)

\* C31: a run of line breaks is handled as one line break: a blank line put in
\* after a line break of the input leaves the kinds and literals of the
\* delivered tokens as they were.
C31_BlankLines ==
  ScannedWhole
    => \A k \in 1..Len(input) :
         input[k] = LF
           => ScanLexemes(Lexer(InsertAt(input, k, LF)), MaxCalls + 1) = Lexemes(out)

\* C32: the top of the indentation stack is the current depth: after the
\* scanner has handled a line break before a non-blank line of depth d, the top
\* of the stack is d.
C32_TopIsDepth ==
  [][(/\ phase = "stepping"
      /\ lexer.state = "lexLineBreak"
      /\ lexer' # lexer
      /\ NonBlankAt(lexer.pos))
       => /\ thrown' = NoExc
          /\ Last(lexer'.indentStack) = DepthAt(lexer.pos)]_vars

(***************************************************************************)
(* Properties of the loop of parseExpr.                                    *)
(***************************************************************************)
\* C33: a ( or [ directly after an operand has a tabled precedence and no
\* infix rule: the parser takes it for the end of the expression, finds that
\* it is no expression terminator and raises unexpected '<symbol>' at that
\* token; no infix rule is invoked for it, so no call ends in a TypeError.
C33_InfixChecked ==
  /\ phase = "done" => thrown.kind # "TypeError"
  /\ (/\ phase = "done"
      /\ Len(out) >= 2
      /\ out[Len(out) - 1].type \in {"Ident", "RightParen"}
      /\ Last(out).type \in {"LeftParen", "LeftBracket"})
       => /\ thrown.kind = "SyntaxError"
          /\ thrown.msg = <<"unexpected '", tokenTypeToSymbol(Last(out).type), "'">>
          /\ thrown.line = LineOf(input, Last(out).loc)
          /\ thrown.col = ColOf(input, Last(out).loc)

(***************************************************************************)
(* Properties of accept, acceptRun and the offsets of the scanner.         *)
(***************************************************************************)
\* C34: accept(valid) moves pos on by one when the next character is in valid
\* and leaves it otherwise; acceptRun(valid) leaves pos at the first offset at
\* or after the one it started at whose character is not in valid, or at the
\* end of the input, and never moves pos back, also when it starts at the end
\* of the input.
C34_AcceptRun ==
  [][/\ (phase = "calling" /\ result'.call = "accept")
          => /\ lexer'.pos =
                  (IF lexer.pos < Len(input) /\ input[lexer.pos + 1] \in result'.valid
                     THEN lexer.pos + 1 ELSE lexer.pos)
             /\ result'.v = (lexer'.pos = lexer.pos + 1)
     /\ (phase = "calling" /\ result'.call = "acceptRun")
          => /\ lexer'.pos = lexer.pos + RunLen(input, lexer.pos + 1, result'.valid)
             /\ lexer'.pos >= lexer.pos]_vars

\* C35: every delivered token that is no Error token has as its literal the
\* text of the input at its offset, the offsets of the delivered tokens never
\* decrease, and the tokens are delivered in the order of their emission: a
\* call made with tokens pending delivers the oldest of them and keeps the
\* others in their order, before whatever the call emits.
C35_TokenText ==
  /\ [](\A i \in 1..Len(out) :
          /\ out[i].loc >= 0
          /\ out[i].type # "Error"
               => /\ out[i].loc + Len(out[i].literal) <= Len(input)
                  /\ out[i].literal =
                       SubSeq(input, out[i].loc + 1, out[i].loc + Len(out[i].literal))
          /\ \A j \in 1..(i - 1) : out[j].loc <= out[i].loc)
  /\ [][(phase = "lexing" /\ thrown' = NoExc /\ lexer.buffer # <<>>)
          => /\ out' = Append(out, Head(lexer.buffer))
             /\ Len(lexer'.buffer) >= Len(lexer.buffer) - 1
             /\ SubSeq(lexer'.buffer, 1, Len(lexer.buffer) - 1) = Tail(lexer.buffer)
                  \/ Head(lexer.buffer).type = "Error"]_vars

\* a word with its text, then an Error token, delivered in that order
C35_Witness ==
  /\ Len(out) >= 2
  /\ out[1].type = "Ident"
  /\ out[1].loc >= 1
  /\ Last(out).type = "Error"
  /\ Last(out).loc > out[1].loc

\* C36: the scanner does no read-ahead: a call of nextToken made while a token
\* is pending delivers that token and scans no further input, so that pos,
\* start and the indentation stack are as they were before the call.
C36_NoReadAhead ==
  [][(phase = "lexing" /\ lexer.buffer # <<>> /\ lexer' # lexer)
       => /\ thrown' = NoExc
          /\ out' = Append(out, Head(lexer.buffer))
          /\ lexer'.pos = lexer.pos
          /\ lexer'.start = lexer.start
          /\ lexer'.indentStack = lexer.indentStack]_vars

\* C37: in every state of the scanner the indentation stack is not empty, its
\* bottom is 0, its levels grow from the bottom to the top, and it has one
\* level above the bottom for every Indent token emitted so far that no
\* Dedent token has answered.
C37_StackShape ==
  /\ Len(lexer.indentStack) >= 1
  /\ lexer.indentStack[1] = 0
  /\ \A i \in 1..(Len(lexer.indentStack) - 1) :
       lexer.indentStack[i] < lexer.indentStack[i + 1]
  /\ Count(out \o lexer.buffer, "Indent") - Count(out \o lexer.buffer, "Dedent")
       = Len(lexer.indentStack) - 1

\* two levels pushed and both popped at the end of the input
C37_Witness ==
  /\ lexer.indentStack = <<0>>
  /\ Count(out, "Indent") = 2
  /\ Count(out, "Dedent") = 2

\* the offset at which the line before the line break at the offset pos - 1
\* starts, that line break being the first after the line
PrevLineStart(pos) ==
  CHOOSE q \in 0..(pos - 1) :
    /\ q = 0 \/ input[q] = LF
    /\ \A j \in (q + 1)..(pos - 1) : input[j] # LF

\* the line before the line break at the offset pos - 1 starts after a line
\* break, holds a character that is no space, and no comment
MeasuredLineBefore(pos) ==
  /\ pos >= 2
  /\ input[pos - 1] # LF
  /\ PrevLineStart(pos) >= 1
  /\ PrevLineStart(pos) + RunLen(input, PrevLineStart(pos) + 1, {" "}) < pos - 1
  /\ \A j \in 1..pos : input[j] \notin {"#", QUOTE}

\* C38: at the line break between two non-blank lines of the same depth the
\* scanner emits neither an Indent nor a Dedent token, whatever lines came
\* before, a dedent to a depth that was never pushed among them.
C38_SameDepth ==
  [][(/\ phase = "stepping"
      /\ lexer.state = "lexLineBreak"
      /\ lexer' # lexer
      /\ NonBlankAt(lexer.pos)
      /\ MeasuredLineBefore(lexer.pos)
      /\ DepthAt(lexer.pos) = RunLen(input, PrevLineStart(lexer.pos) + 1, {" "}))
       => /\ thrown' = NoExc
          /\ lexer'.buffer = lexer.buffer]_vars

(***************************************************************************)
(* Properties of numbers at the end of the input.                          *)
(***************************************************************************)
\* C39: a number lexes to the same token, with the same literal, at the end
\* of the input and before a space: the first token of an input that begins
\* with a digit and holds no space is the first token of that input with a
\* space put after it; 1. and 1e among these inputs.
C39_NumberAtEnd ==
  (/\ Len(out) = 1
   /\ thrown = NoExc
   /\ input # <<>>
   /\ isDigit(input[1])
   /\ \A i \in 1..Len(input) : input[i] # " ")
    => ScanLexemes(Lexer(input \o <<" ">>), 1) = Lexemes(out)

\* C40: in every state of the scanner 0 <= start <= pos <= Len(input), and
\* with pos at the end of the input peekChar and nextChar return the
\* end-of-input character and leave pos where it is.
C40_Offsets ==
  /\ 0 <= lexer.start
  /\ lexer.start <= lexer.pos
  /\ lexer.pos <= Len(input)
  /\ lexer.pos = Len(input)
       => /\ peekChar(lexer) = EOF
          /\ nextChar(lexer).c = EOF
          /\ nextChar(lexer).l.pos = lexer.pos

\* an Error token after a word: emitError has backed pos up to start, which
\* lies inside the input
C40_Witness ==
  /\ Len(out) >= 2
  /\ Last(out).type = "Error"
  /\ lexer.start >= 1
  /\ lexer.pos = lexer.start
  /\ lexer.pos < Len(input)

====
